---- MODULE Spec2Model ----
(***************************************************************************)
(* Merchant onboarding service: authentication state machine (sign-up,     *)
(* sign-in, OTP issuance and verification, password reset, admin enable    *)
(* and disable), the multi-window rate limiter, the audit pipeline, the    *)
(* audit body masking and the token validity window.                       *)
(*                                                                         *)
(* Time is counted in whole seconds.  The credential store and the session *)
(* cache are part of the state; the notification channel and the audit     *)
(* store write are fallible inputs.                                        *)
(***************************************************************************)
EXTENDS Integers, Sequences, FiniteSets, TLC

VARIABLES
    now,            \* wall clock, seconds
    merchants,      \* credential store: email -> merchantsMaster row
    otps,           \* credential store: merchantOtp rows, in creation order
    sessions,       \* session cache: mfa:session:<token> -> MfaSession + key expiry
    nextToken,      \* number of MFA session tokens generated so far
    resp,           \* the last auth request and its response
    failedChecks,   \* history: per session token returned to a client, OTP checks
                    \* that failed (saturating)
    jwtExpiresIn,   \* process configuration JWT_EXPIRES_IN, a string of characters
    issued,         \* the last token generated by generateToken
    held,           \* the signed tokens a client has kept from responses
    rlConf,         \* the window under check: its name, length and configured limit
    rlCounter,      \* session cache: the rate_limit:<endpoint>:ip:<ip>:<window> key
    rlReq,          \* per request in flight: its position in checkWindowLimit
    rlResult,       \* the result checkWindowLimit returned last, and the reply made of it
    rlAdmitted,     \* history: checks allowed since the counter key last came to exist
                    \* (not counted further once above the limit)
    auditLogQueue,  \* in-memory queue of audit entries
    queueProcessing,\* flag of processAuditQueue
    auditTimers,    \* setImmediate callbacks of processAuditQueue not yet run
    auditFlush,     \* the flush cycles under way, each with its batch and phase
    auditStore,     \* audit_logs rows, in the order written
    auditSeen,      \* history: number of audit entries ever queued
    auditErrors,    \* history: whether a failure of the pipeline was logged, and
                    \* whether one left processAuditQueue uncaught
    maskInput,      \* a request body
    maskOutput,     \* what maskSensitiveData returned for it
    suReq,          \* per signUp request in flight: its position, input and outcome
    mobileUnique,   \* whether the credential store enforces unique phone numbers
    vReq,           \* per verification request in flight: its position, input,
                    \* what it has read so far, and its outcome
    mwConf,         \* checkRateLimit: the limit of each window of the endpoint
    mwCounter,      \* the counter key of each window, or NoKey
    mwCall,         \* per window, the position of the call's checkWindowLimit
    mwResult,       \* what the last checkRateLimit call returned
    ipReq,          \* a request as the address resolution sees it: its headers
                    \* and its socket
    ipSeen,         \* the address each middleware resolved for that request
    rcCall,         \* getRateLimitConfig: the configuration table and the path
    rcResult,       \* what getRateLimitConfig returned for them
    scBatch,        \* checkSuspiciousActivities: the flushed batch
    scSignals       \* the signals the scan raised for it

authVars == <<merchants, otps, sessions, nextToken, resp, failedChecks>>
tokenVars == <<jwtExpiresIn, issued, held>>
rateVars == <<rlConf, rlCounter, rlReq, rlResult, rlAdmitted>>
auditVars == <<auditLogQueue, queueProcessing, auditTimers, auditFlush, auditStore,
               auditSeen, auditErrors>>
maskVars == <<maskInput, maskOutput>>
signUpVars == <<suReq, mobileUnique>>
verifyVars == <<vReq>>
multiVars == <<mwConf, mwCounter, mwCall, mwResult>>
pureVars == <<ipReq, ipSeen, rcCall, rcResult, scBatch, scSignals>>

vars == <<now, authVars, tokenVars, rateVars, auditVars, maskVars, signUpVars, verifyVars, multiVars, pureVars>>

----------------------------------------------------------------------------
(* Bounds of the model *)

MaxTime == 800
MaxOtps == 2
MaxSessions == 1

TimeSteps == {200}
Emails == {"e1"}
Mobiles == {"m1"}
Passwords == {"password1", "password2", "short"}
OtpValues == {"111111", "222222"}
PublicIds == {"10000001", "10000002"}
OtpTypes == {"email", "sms"}

(* Program constants *)

SessionTtl == 600
SessionLifetime == 600
OtpLifetime == 600
MaxAttempts == 3
OtpCooldown == 60
MaxIdAttempts == 10
MinPasswordLength == 8
MAX_EXPIRY_SECONDS == 3600

----------------------------------------------------------------------------
(* Helpers *)

Max(S) == CHOOSE x \in S : \A y \in S : y <= x

PasswordLength(p) == IF p = "short" THEN 5 ELSE 9

\* bcrypt is opaque: a hash remembers the password it was made from
hashPassword(p) == <<"bcrypt", p>>
comparePassword(p, h) == h = <<"bcrypt", p>>

NoToken == [none |-> TRUE]
NoSession == 0

----------------------------------------------------------------------------
(* Token validity window: packages/common/src/auth.ts *)

MaxExpiryLen == 3
ExpiryChars == {"0", "1", "2", "9", "s", "m", "h", "d", "x"}
ExpiryStrings == UNION {[1..n -> ExpiryChars] : n \in 1..MaxExpiryLen}
DefaultExpiresIn == <<"1", "0", "m">>

IsDigit(c) == c \in {"0", "1", "2", "3", "4", "5", "6", "7", "8", "9"}

DigitValue(c) ==
    CASE c = "0" -> 0 [] c = "1" -> 1 [] c = "2" -> 2 [] c = "3" -> 3
      [] c = "4" -> 4 [] c = "5" -> 5 [] c = "6" -> 6 [] c = "7" -> 7
      [] c = "8" -> 8 [] c = "9" -> 9 [] OTHER -> 0

RECURSIVE ParseInt(_)
ParseInt(s) ==
    IF Len(s) = 0 THEN 0
    ELSE 10 * ParseInt(SubSeq(s, 1, Len(s) - 1)) + DigitValue(s[Len(s)])

\* /^(\d+)([smhd])$/
MatchesExpiry(s) ==
    /\ Len(s) >= 2
    /\ \A i \in 1..(Len(s) - 1) : IsDigit(s[i])
    /\ s[Len(s)] \in {"s", "m", "h", "d"}

UnitSeconds(u) ==
    CASE u = "s" -> 1 [] u = "m" -> 60 [] u = "h" -> 3600 [] u = "d" -> 86400

\* seconds a well-formed expiry string stands for (the switch of parseExpiryTime,
\* and the reading jwt.sign gives the same string)
ExpirySeconds(s) == ParseInt(SubSeq(s, 1, Len(s) - 1)) * UnitSeconds(s[Len(s)])

parseExpiryTime(expiresIn) ==
    IF ~MatchesExpiry(expiresIn) THEN DefaultExpiresIn
    ELSE expiresIn

validatedExpiresIn == parseExpiryTime(jwtExpiresIn)

generateToken(payload) ==
    [userId |-> payload.userId, merchantId |-> payload.merchantId,
     role |-> payload.role, email |-> payload.email,
     kycVerified |-> payload.kycVerified, isActive |-> payload.isActive,
     iat |-> now, exp |-> now + ExpirySeconds(validatedExpiresIn)]

----------------------------------------------------------------------------
(* Authentication state machine: authService *)

\* dispatched and failed: the channels on which the call attempted to send a
\* code, and those on which the send failed
NoResp ==
    [op |-> "none", status |-> 0, message |-> "", token |-> NoToken,
     requiresOtp |-> FALSE, mfaSessionToken |-> NoSession, flow |-> "",
     dispatched |-> {}, failed |-> {}]

InvalidCredentials == "Invalid email or password"
SmsUnavailable ==
    "SMS service temporarily unavailable. Please try again later or contact support."

Registered == DOMAIN merchants

\* kycVerified is stored false by signUp and written by no operation modelled
\* here, so it is false in every token the verification flows issue
TokenFor(m) ==
    generateToken([userId |-> m.email, merchantId |-> m.nineteenMerchantId,
                   role |-> "merchant", email |-> m.email, kycVerified |-> FALSE,
                   isActive |-> m.isActive])

IsSms(otpType) == otpType = "mobile" \/ otpType = "sms"

NewOtp(email, otp, otpType) ==
    [email |-> email, otp |-> otp, otpType |-> otpType,
     createdAt |-> now, expiresAt |-> now + OtpLifetime, isUsed |-> FALSE]

\* redisClient.get: a key is invisible once its TTL has elapsed
SessionVisible(t) == t \in DOMAIN sessions /\ now <= sessions[t].ttlEnd

\* redisClient.setEx: the cache refuses a TTL that is not positive
SetExOk(ttl) == ttl > 0

StoreSession_FullTtl(ss, t, s, ttl) ==
    [k \in (DOMAIN ss) \cup {t} |->
        IF k = t THEN [s EXCEPT !.ttlEnd = now + SessionTtl] ELSE ss[k]]

StoreSession(ss, t, s, ttl) ==
    [k \in (DOMAIN ss) \cup {t} |->
        IF k = t THEN [s EXCEPT !.ttlEnd = now + ttl] ELSE ss[k]]

DeleteSession_Keeps(ss, t) == ss

DeleteSession(ss, t) == [k \in (DOMAIN ss) \ {t} |-> ss[k]]

AllocateId_OneDraw(draws, attempts, used) ==
    IF draws[1] \notin used THEN draws[1] ELSE ""

\* the draws of the public-ID loop: the first candidate not yet used, "" when
\* all maxAttempts candidates collide
RECURSIVE AllocateId(_, _, _)
AllocateId(draws, attempts, used) ==
    IF attempts >= MaxIdAttempts THEN ""
    ELSE IF draws[attempts + 1] \notin used THEN draws[attempts + 1]
    ELSE AllocateId(draws, attempts + 1, used)

\* the value of attempts when the loop is left: the number of candidates drawn
RECURSIVE AllocateAttempts(_, _, _)
AllocateAttempts(draws, attempts, used) ==
    IF attempts >= MaxIdAttempts THEN attempts
    ELSE IF draws[attempts + 1] \notin used THEN attempts + 1
    ELSE AllocateAttempts(draws, attempts + 1, used)

DrawSeqs ==
    {[i \in 1..MaxIdAttempts |-> IF i <= k THEN a ELSE b] :
        k \in {0, 1, MaxIdAttempts}, a \in PublicIds, b \in PublicIds}

UsedIds == {merchants[e].nineteenMerchantId : e \in Registered}

SignUp(email, mobile, password, draws) ==
    LET id == AllocateId(draws, 0, UsedIds)
        status == IF email \in Registered THEN 409
                  ELSE IF \E e \in Registered : merchants[e].mobile = mobile THEN 409
                  ELSE IF id = "" THEN 500
                  ELSE 201
    IN  /\ merchants' =
              IF status = 201
              THEN [e \in Registered \cup {email} |->
                      IF e = email
                      THEN [email |-> email, mobile |-> mobile,
                            password |-> hashPassword(password),
                            nineteenMerchantId |-> id,
                            isActive |-> FALSE, is2faActive |-> FALSE,
                            isMobileVerified |-> FALSE, isEmailVerified |-> FALSE]
                      ELSE merchants[e]]
              ELSE merchants
        /\ resp' = [NoResp EXCEPT !.op = "signUp", !.status = status]
        /\ UNCHANGED <<now, otps, sessions, nextToken, failedChecks>>

NewSession(m, emailDone, smsDone, mfaOnly) ==
    [email |-> m.email, mobile |-> m.mobile,
     emailOtpVerified |-> emailDone, smsOtpVerified |-> smsDone,
     isMfaOnly |-> mfaOnly, expiresAt |-> now + SessionLifetime,
     attempts |-> 0, ttlEnd |-> now + SessionTtl]

SignInCase_ActiveSkipsActivation(m) ==
    IF ~m.isActive THEN "first-activation"
    ELSE IF m.is2faActive THEN "routine-mfa"
    ELSE "invalid-state"

\* which branch signIn takes for an account whose password matched
SignInCase(m) ==
    IF ~m.isActive \/ ~m.isEmailVerified \/ ~m.isMobileVerified THEN "first-activation"
    ELSE IF m.isActive /\ m.is2faActive /\ m.isEmailVerified /\ m.isMobileVerified
         THEN "routine-mfa"
    ELSE "invalid-state"

SignInBranch_SkipsPassword(e, p) ==
    IF e \notin Registered THEN "unauthorized" ELSE SignInCase(merchants[e])

SignInBranch(e, p) ==
    IF e \notin Registered \/ ~comparePassword(p, merchants[e].password) THEN "unauthorized"
    ELSE SignInCase(merchants[e])

SignIn(email, password, emailOtp, smsOtp, emailSent, smsSent) ==
    LET m == merchants[email]
        branch == SignInBranch(email, password)
        t == nextToken + 1
        sendEmail == branch = "first-activation" /\ ~m.isEmailVerified
        sendSms == \/ branch = "first-activation" /\ ~m.isMobileVerified
                   \/ branch = "routine-mfa"
        created == (IF sendEmail THEN <<NewOtp(email, emailOtp, "email")>> ELSE <<>>)
                   \o (IF sendSms THEN <<NewOtp(email, smsOtp, "sms")>> ELSE <<>>)
        unavailable == sendSms /\ ~smsSent
        dispatched == (IF sendEmail THEN {"email"} ELSE {})
                      \cup (IF sendSms THEN {"sms"} ELSE {})
        failed == (IF sendEmail /\ ~emailSent THEN {"email"} ELSE {})
                  \cup (IF sendSms /\ ~smsSent THEN {"sms"} ELSE {})
    IN  /\ branch \in {"first-activation", "routine-mfa"} =>
              nextToken < MaxSessions /\ Len(otps) + Len(created) <= MaxOtps
        /\ IF branch \in {"first-activation", "routine-mfa"}
           THEN /\ sessions' = StoreSession(sessions, t,
                        IF branch = "routine-mfa"
                        THEN NewSession(m, TRUE, FALSE, TRUE)
                        ELSE NewSession(m, m.isEmailVerified, m.isMobileVerified, FALSE),
                        SessionTtl)
                /\ nextToken' = t
                /\ otps' = otps \o created
                /\ failedChecks' = IF unavailable THEN failedChecks
                                   ELSE [k \in (DOMAIN failedChecks) \cup {t} |->
                                            IF k = t THEN 0 ELSE failedChecks[k]]
                /\ resp' = IF unavailable
                           THEN [NoResp EXCEPT !.op = "signIn", !.status = 503,
                                               !.message = SmsUnavailable,
                                               !.dispatched = dispatched,
                                               !.failed = failed]
                           ELSE [NoResp EXCEPT
                                   !.op = "signIn", !.status = 200,
                                   !.message =
                                      IF branch = "routine-mfa"
                                      THEN "OTP verification required. OTP sent to your registered mobile number."
                                      ELSE "Please verify both your email and mobile number to activate your account.",
                                   !.requiresOtp = TRUE,
                                   !.mfaSessionToken = t,
                                   !.dispatched = dispatched,
                                   !.failed = failed]
           ELSE /\ resp' = [NoResp EXCEPT
                               !.op = "signIn",
                               !.status = IF branch = "unauthorized" THEN 401 ELSE 422,
                               !.message =
                                  IF branch = "unauthorized" THEN InvalidCredentials
                                  ELSE "Account is in an invalid state. Please contact support for assistance."]
                /\ UNCHANGED <<sessions, nextToken, otps, failedChecks>>
        /\ UNCHANGED <<now, merchants>>

\* an unexpired, unused code of this email and type created in the last 60 seconds
CoolingDown(email, otpType) ==
    \E i \in 1..Len(otps) :
        /\ otps[i].email = email /\ otps[i].otpType = otpType
        /\ ~otps[i].isUsed
        /\ otps[i].expiresAt > now
        /\ otps[i].createdAt >= now - OtpCooldown

SendOtp(email, otpType, otp, sent) ==
    LET status == IF email \notin Registered THEN 404
                  ELSE IF CoolingDown(email, otpType) THEN 400
                  ELSE IF ~sent THEN 500
                  ELSE 200
    IN  /\ status \in {200, 500} => Len(otps) < MaxOtps
        /\ otps' = IF status \in {200, 500}
                   THEN Append(otps, NewOtp(email, otp, otpType))
                   ELSE otps
        /\ resp' = [NoResp EXCEPT
                      !.op = "sendOtp", !.status = status,
                      !.dispatched = IF status \in {200, 500} THEN {otpType} ELSE {},
                      !.failed = IF status = 500 THEN {otpType} ELSE {}]
        /\ UNCHANGED <<now, merchants, sessions, nextToken, failedChecks>>

UnusedMatches_IgnoresUsed(email, otp, otpType) ==
    {i \in 1..Len(otps) :
        /\ otps[i].email = email /\ otps[i].otp = otp
        /\ otps[i].otpType = otpType}

\* prisma.merchantOtp.findFirst({email, otp, otpType, isUsed: false}): the rows that match
UnusedMatches(email, otp, otpType) ==
    {i \in 1..Len(otps) :
        /\ otps[i].email = email /\ otps[i].otp = otp
        /\ otps[i].otpType = otpType /\ ~otps[i].isUsed}

\* orderBy createdAt desc: rows are kept in creation order
MostRecent(rows) == Max(rows)

MarkUsed(i) == [otps EXCEPT ![i].isUsed = TRUE]

SetFlags(email, flags) ==
    [merchants EXCEPT ![email] = [f \in DOMAIN @ |-> IF f \in flags THEN TRUE ELSE @[f]]]

\* the session with the flag of the channel just verified set
MarkChannel(s, otpType) ==
    [s EXCEPT !.emailOtpVerified = IF otpType = "email" THEN TRUE ELSE @,
              !.smsOtpVerified = IF IsSms(otpType) THEN TRUE ELSE @]

allVerified_EitherChannel(s) == s.emailOtpVerified \/ s.smsOtpVerified

allVerified(s) == s.emailOtpVerified /\ s.smsOtpVerified

ChannelRefused_Never(s, otpType) == FALSE

\* MFA-only sessions accept the sms code only
ChannelRefused(s, otpType) == s.isMfaOnly /\ otpType = "email"

\* the way one verifyOtp call ends
VerifyOutcome(sess, email, otp, otpType) ==
    LET bySession == sess # NoSession
        s == sessions[sess]
        merchantEmail == IF bySession THEN s.email ELSE email
        rows == UnusedMatches(merchantEmail, otp, otpType)
        rec == otps[MostRecent(rows)]
        ttl == s.expiresAt - now
    IN  IF bySession /\ ~SessionVisible(sess) THEN "no-session"
        ELSE IF bySession /\ now > s.expiresAt THEN "session-expired"
        ELSE IF bySession /\ s.attempts >= MaxAttempts THEN "too-many-attempts"
        ELSE IF bySession /\ ChannelRefused(s, otpType) THEN "email-on-mfa"
        ELSE IF rows = {} THEN
            (IF bySession /\ ~SetExOk(ttl) THEN "no-match-cache-error" ELSE "no-match")
        ELSE IF now > rec.expiresAt THEN "otp-expired"
        ELSE IF merchantEmail \notin Registered THEN "no-merchant"
        ELSE IF bySession THEN
            (IF s.isMfaOnly THEN "mfa-token"
             ELSE IF allVerified(MarkChannel(s, otpType)) THEN "activated"
             ELSE IF ~SetExOk(ttl) THEN "partial-cache-error"
             ELSE "partial")
        ELSE IF (IF otpType = "email" THEN TRUE
                 ELSE merchants[merchantEmail].isEmailVerified)
                /\ (IF IsSms(otpType) THEN TRUE
                    ELSE merchants[merchantEmail].isMobileVerified)
             THEN "legacy-token"
        ELSE "legacy-partial"

VerifyStatus(outcome) ==
    CASE outcome \in {"no-session", "session-expired", "too-many-attempts",
                      "no-match", "otp-expired"} -> 401
      [] outcome = "email-on-mfa" -> 400
      [] outcome = "no-merchant" -> 404
      [] outcome \in {"no-match-cache-error", "partial-cache-error"} -> 500
      [] OTHER -> 200

\* the case of verifyOtp that answered a successful call
VerifyFlow(outcome) ==
    CASE outcome = "mfa-token" -> "mfa-only"
      [] outcome \in {"activated", "partial"} -> "first-activation"
      [] outcome \in {"legacy-token", "legacy-partial"} -> "legacy"
      [] OTHER -> ""

VerifyOtp(sess, email, otp, otpType) ==
    LET outcome == VerifyOutcome(sess, email, otp, otpType)
        bySession == sess # NoSession
        s == sessions[sess]
        merchantEmail == IF bySession THEN s.email ELSE email
        row == MostRecent(UnusedMatches(merchantEmail, otp, otpType))
        verified == IF otpType = "email" THEN "isEmailVerified" ELSE "isMobileVerified"
        allFlags == {"isActive", "is2faActive", "isEmailVerified", "isMobileVerified"}
        consumed == outcome \in {"no-merchant", "mfa-token", "activated", "partial",
                                 "partial-cache-error", "legacy-token", "legacy-partial"}
    IN  /\ otps' = IF consumed THEN MarkUsed(row) ELSE otps
        /\ sessions' =
              CASE outcome \in {"session-expired", "too-many-attempts",
                                "mfa-token", "activated"} -> DeleteSession(sessions, sess)
                [] outcome = "no-match" /\ bySession ->
                      StoreSession(sessions, sess, [s EXCEPT !.attempts = @ + 1],
                                   s.expiresAt - now)
                [] outcome = "partial" ->
                      StoreSession(sessions, sess, MarkChannel(s, otpType), s.expiresAt - now)
                [] OTHER -> sessions
        /\ merchants' =
              CASE outcome = "activated" -> SetFlags(merchantEmail, allFlags)
                [] outcome = "partial" -> SetFlags(merchantEmail, {verified})
                [] outcome = "legacy-token" ->
                      SetFlags(merchantEmail, {verified, "isActive", "is2faActive"})
                [] outcome = "legacy-partial" -> SetFlags(merchantEmail, {verified})
                [] OTHER -> merchants
        /\ resp' = [NoResp EXCEPT
                      !.op = "verifyOtp",
                      !.status = VerifyStatus(outcome),
                      !.token = IF outcome \in {"mfa-token", "activated", "legacy-token"}
                                THEN TokenFor(merchants'[merchantEmail]) ELSE NoToken,
                      !.requiresOtp = outcome \in {"partial", "legacy-partial"},
                      !.mfaSessionToken = IF outcome = "partial" THEN sess ELSE NoSession,
                      !.flow = VerifyFlow(outcome)]
        /\ failedChecks' =
              IF bySession /\ outcome \in {"no-match", "no-match-cache-error", "otp-expired"}
              THEN [failedChecks EXCEPT ![sess] = IF @ < MaxAttempts THEN @ + 1 ELSE @]
              ELSE failedChecks
        /\ UNCHANGED <<now, nextToken>>

ResetGeneric ==
    "If the email exists, a password reset OTP has been sent to your registered mobile number."

RequestPasswordReset(email, otp, sent) ==
    LET proceed == email \in Registered /\ merchants[email].isActive
    IN  /\ proceed => Len(otps) < MaxOtps
        /\ otps' = IF proceed THEN Append(otps, NewOtp(email, otp, "sms")) ELSE otps
        /\ resp' = [NoResp EXCEPT
                      !.op = "requestPasswordReset",
                      !.status = IF proceed /\ ~sent THEN 503 ELSE 200,
                      !.message =
                         IF ~proceed THEN ResetGeneric
                         ELSE IF ~sent THEN SmsUnavailable
                         ELSE "Password reset OTP has been sent to your registered mobile number.",
                      !.dispatched = IF proceed THEN {"sms"} ELSE {},
                      !.failed = IF proceed /\ ~sent THEN {"sms"} ELSE {}]
        /\ UNCHANGED <<now, merchants, sessions, nextToken, failedChecks>>

\* findFirst({email, otp, otpType: 'sms', isUsed: false, expiresAt > now})
ResetMatches(email, otp) ==
    {i \in UnusedMatches(email, otp, "sms") : otps[i].expiresAt > now}

VerifyPasswordReset(email, otp, newPassword) ==
    LET rows == ResetMatches(email, otp)
        status == IF PasswordLength(newPassword) < MinPasswordLength THEN 400
                  ELSE IF email \notin Registered THEN 404
                  ELSE IF rows = {} THEN 401
                  ELSE 200
    IN  /\ otps' = IF status = 200 THEN MarkUsed(MostRecent(rows)) ELSE otps
        /\ merchants' = IF status = 200
                        THEN [merchants EXCEPT ![email].password = hashPassword(newPassword)]
                        ELSE merchants
        /\ resp' = [NoResp EXCEPT !.op = "verifyPasswordReset", !.status = status]
        /\ UNCHANGED <<now, sessions, nextToken, failedChecks>>

----------------------------------------------------------------------------
(* Admin operations on a merchant account: adminService *)

ByPublicId(merchantId) == {e \in Registered : merchants[e].nineteenMerchantId = merchantId}

SetActive(merchantId, active) ==
    LET found == ByPublicId(merchantId)
        e == CHOOSE x \in found : TRUE
    IN  /\ merchants' = IF found # {} /\ merchants[e].isActive # active
                        THEN [merchants EXCEPT ![e].isActive = active]
                        ELSE merchants
        /\ resp' = [NoResp EXCEPT
                      !.op = IF active THEN "enableMerchantAccount"
                             ELSE "disableMerchantAccount",
                      !.status = IF found = {} THEN 404 ELSE 200]
        /\ UNCHANGED <<now, otps, sessions, nextToken, failedChecks>>

DisableMerchantAccount(merchantId) == SetActive(merchantId, FALSE)

EnableMerchantAccount(merchantId) == SetActive(merchantId, TRUE)

----------------------------------------------------------------------------
(* Passage of time: cache keys whose TTL has elapsed disappear *)

Advance(d) ==
    /\ now + d <= MaxTime
    /\ now' = now + d
    /\ sessions' = [k \in {t \in DOMAIN sessions : now + d <= sessions[t].ttlEnd} |->
                        sessions[k]]
    /\ UNCHANGED <<merchants, otps, nextToken, resp, failedChecks>>

----------------------------------------------------------------------------
(* The authentication service, requests handled one at a time *)

\* the credential store as the service finds it: empty, or holding an account that
\* signed up, or one that completed activation
InitialAccounts ==
    {[email |-> "e1", mobile |-> "m1", password |-> hashPassword("password1"),
      nineteenMerchantId |-> "10000001", isActive |-> a, is2faActive |-> a,
      isMobileVerified |-> a, isEmailVerified |-> a] : a \in BOOLEAN}

InitialStores == {<<>>} \cup {[e \in {acc.email} |-> acc] : acc \in InitialAccounts}

\* the parts of the service a specification leaves at rest
IdleAuth ==
    /\ merchants = <<>> /\ otps = <<>> /\ sessions = <<>> /\ nextToken = 0
    /\ resp = NoResp /\ failedChecks = <<>>

IdleToken == jwtExpiresIn = DefaultExpiresIn /\ issued = NoToken /\ held = {}

IdleRate ==
    /\ rlConf = <<>> /\ rlCounter = <<>> /\ rlReq = <<>> /\ rlResult = <<>>
    /\ rlAdmitted = 0

IdleAudit ==
    /\ auditLogQueue = <<>> /\ queueProcessing = FALSE /\ auditTimers = 0
    /\ auditFlush = {} /\ auditStore = <<>> /\ auditSeen = 0
    /\ auditErrors = [logged |-> FALSE, raised |-> FALSE]

IdleMask == maskInput = <<>> /\ maskOutput = <<>>

IdleSignUp == suReq = <<>> /\ mobileUnique = FALSE

IdleVerify == vReq = <<>>

IdleMulti == mwConf = <<>> /\ mwCounter = <<>> /\ mwCall = <<>> /\ mwResult = <<>>
IdleIp == ipReq = <<>> /\ ipSeen = <<>>
IdleConf == rcCall = <<>> /\ rcResult = <<>>
IdleScan == scBatch = <<>> /\ scSignals = <<>>
IdlePure == IdleIp /\ IdleConf /\ IdleScan

InitAuth ==
    /\ now = 0
    /\ merchants \in InitialStores
    /\ otps = <<>>
    /\ sessions = <<>>
    /\ nextToken = 0
    /\ resp = NoResp
    /\ failedChecks = <<>>
    /\ IdleToken /\ IdleRate /\ IdleAudit /\ IdleMask /\ IdleSignUp /\ IdleVerify /\ IdleMulti /\ IdlePure

\* a code is drawn, and a dispatch attempted, only on the paths that reach them
EmailOtpDraws(e, p) ==
    IF SignInBranch(e, p) = "first-activation" /\ ~merchants[e].isEmailVerified
    THEN OtpValues ELSE {"111111"}

SmsOtpDraws(e, p) ==
    IF \/ SignInBranch(e, p) = "first-activation" /\ ~merchants[e].isMobileVerified
       \/ SignInBranch(e, p) = "routine-mfa"
    THEN OtpValues ELSE {"111111"}

EmailSendOutcomes(e, p) ==
    IF SignInBranch(e, p) = "first-activation" /\ ~merchants[e].isEmailVerified
    THEN BOOLEAN ELSE {TRUE}

SmsSendOutcomes(e, p) ==
    IF \/ SignInBranch(e, p) = "first-activation" /\ ~merchants[e].isMobileVerified
       \/ SignInBranch(e, p) = "routine-mfa"
    THEN BOOLEAN ELSE {TRUE}

SendOtpDraws(e, ty) ==
    IF e \in Registered /\ ~CoolingDown(e, ty) THEN OtpValues ELSE {"111111"}

SendOtpOutcomes(e, ty) ==
    IF e \in Registered /\ ~CoolingDown(e, ty) THEN BOOLEAN ELSE {TRUE}

SignUpPasswords == {p \in Passwords : PasswordLength(p) >= MinPasswordLength}

DoSignUp ==
    /\ \E e \in Emails, m \in Mobiles, p \in SignUpPasswords, draws \in DrawSeqs :
          SignUp(e, m, p, draws)
    /\ UNCHANGED <<tokenVars, rateVars, auditVars, maskVars, signUpVars, verifyVars, multiVars, pureVars>>

DoSignIn ==
    /\ \E e \in Emails, p \in Passwords :
        \E eo \in EmailOtpDraws(e, p), so \in SmsOtpDraws(e, p),
           es \in EmailSendOutcomes(e, p), ss \in SmsSendOutcomes(e, p) :
            SignIn(e, p, eo, so, es, ss)
    /\ UNCHANGED <<tokenVars, rateVars, auditVars, maskVars, signUpVars, verifyVars, multiVars, pureVars>>

DoSendOtp ==
    /\ \E e \in Emails, ty \in OtpTypes :
        \E o \in SendOtpDraws(e, ty), sent \in SendOtpOutcomes(e, ty) :
            SendOtp(e, ty, o, sent)
    /\ UNCHANGED <<tokenVars, rateVars, auditVars, maskVars, signUpVars, verifyVars, multiVars, pureVars>>

DoVerifyOtp ==
    /\ \E t \in DOMAIN failedChecks, o \in OtpValues, ty \in OtpTypes :
          VerifyOtp(t, "", o, ty)
    /\ UNCHANGED <<tokenVars, rateVars, auditVars, maskVars, signUpVars, verifyVars, multiVars, pureVars>>

DoVerifyOtpLegacy ==
    /\ \E e \in Emails, o \in OtpValues, ty \in OtpTypes :
          VerifyOtp(NoSession, e, o, ty)
    /\ UNCHANGED <<tokenVars, rateVars, auditVars, maskVars, signUpVars, verifyVars, multiVars, pureVars>>

DoRequestPasswordReset ==
    /\ \E e \in Emails, o \in OtpValues, sent \in BOOLEAN :
          RequestPasswordReset(e, o, sent)
    /\ UNCHANGED <<tokenVars, rateVars, auditVars, maskVars, signUpVars, verifyVars, multiVars, pureVars>>

DoVerifyPasswordReset ==
    /\ \E e \in Emails, o \in OtpValues, p \in Passwords :
          VerifyPasswordReset(e, o, p)
    /\ UNCHANGED <<tokenVars, rateVars, auditVars, maskVars, signUpVars, verifyVars, multiVars, pureVars>>

DoDisable ==
    /\ \E id \in PublicIds : DisableMerchantAccount(id)
    /\ UNCHANGED <<tokenVars, rateVars, auditVars, maskVars, signUpVars, verifyVars, multiVars, pureVars>>

DoEnable ==
    /\ \E id \in PublicIds : EnableMerchantAccount(id)
    /\ UNCHANGED <<tokenVars, rateVars, auditVars, maskVars, signUpVars, verifyVars, multiVars, pureVars>>

Tick ==
    /\ \E d \in TimeSteps : Advance(d)
    /\ UNCHANGED <<tokenVars, rateVars, auditVars, maskVars, signUpVars, verifyVars, multiVars, pureVars>>

NextAuth ==
    \/ DoSignUp \/ DoSignIn \/ DoSendOtp \/ DoVerifyOtp \/ DoVerifyOtpLegacy
    \/ DoRequestPasswordReset \/ DoVerifyPasswordReset
    \/ DoDisable \/ DoEnable

NextTimed ==
    \/ DoSignIn \/ DoVerifyOtp \/ DoVerifyOtpLegacy
    \/ DoRequestPasswordReset \/ DoVerifyPasswordReset \/ Tick

SpecAuth == InitAuth /\ [][NextAuth]_vars

SpecTimed == InitAuth /\ [][NextTimed]_vars

----------------------------------------------------------------------------
(* Authenticated requests: the authenticate middleware *)

MaxHeld == 2
RefreshMargin == 120
SessionSteps == {100, 500}

\* jwt.verify: the tokens a client holds are genuinely signed; one is rejected
\* from its exp on
verifyToken(tok) == now < tok.exp

shouldRefreshToken_Late(payload) == payload.exp - now <= RefreshMargin

\* refresh if less than 2 minutes remain
shouldRefreshToken(payload) == payload.exp - now < RefreshMargin

\* the way the authenticate middleware ends for a request bearing this token
authenticate(tok) ==
    IF ~verifyToken(tok) THEN "invalid-token"
    ELSE IF ~tok.isActive THEN "inactive"
    ELSE IF shouldRefreshToken(tok) THEN "refreshed"
    ELSE "passed"

\* the payload of the replacement token
RefreshPayload(payload) ==
    [userId |-> payload.userId, merchantId |-> payload.merchantId,
     role |-> payload.role, email |-> payload.email,
     kycVerified |-> payload.kycVerified, isActive |-> payload.isActive]

Authenticate(tok) ==
    LET outcome == authenticate(tok)
    IN  /\ resp' = [NoResp EXCEPT
                      !.op = "authenticate",
                      !.status = IF outcome \in {"passed", "refreshed"} THEN 200 ELSE 401,
                      !.message =
                         CASE outcome = "invalid-token" -> "Invalid or expired token"
                           [] outcome = "inactive" -> "Merchant account is inactive"
                           [] OTHER -> "",
                      !.token = IF outcome = "refreshed"
                                THEN generateToken(RefreshPayload(tok))
                                ELSE NoToken]
        /\ UNCHANGED <<now, merchants, otps, sessions, nextToken, failedChecks>>

DoAuthenticate ==
    /\ \E tok \in held : Authenticate(tok)
    /\ UNCHANGED <<tokenVars, rateVars, auditVars, maskVars, signUpVars, verifyVars, multiVars, pureVars>>

\* the client keeps the token of the response it just received (the token of a
\* verification, or the X-New-Token header of an authenticated request)
KeepToken ==
    /\ resp.token # NoToken
    /\ resp.token \notin held
    /\ Cardinality(held) < MaxHeld
    /\ held' = held \cup {resp.token}
    /\ UNCHANGED <<now, authVars, jwtExpiresIn, issued, rateVars, auditVars, maskVars, signUpVars, verifyVars, multiVars, pureVars>>

SessionTick ==
    /\ \E d \in SessionSteps : Advance(d)
    /\ UNCHANGED <<tokenVars, rateVars, auditVars, maskVars, signUpVars, verifyVars, multiVars, pureVars>>

NextSession ==
    \/ DoSignIn \/ DoVerifyOtp \/ DoDisable \/ DoEnable
    \/ KeepToken \/ DoAuthenticate \/ SessionTick

SpecSession == InitAuth /\ [][NextSession]_vars

----------------------------------------------------------------------------
(* Token issuance under every configured validity value *)

InitToken ==
    /\ now = 0
    /\ jwtExpiresIn \in ExpiryStrings
    /\ issued = NoToken
    /\ held = {}
    /\ IdleAuth /\ IdleRate /\ IdleAudit /\ IdleMask /\ IdleSignUp /\ IdleVerify /\ IdleMulti /\ IdlePure

TokenPayloads ==
    {[userId |-> "e1", merchantId |-> "10000001", role |-> "merchant",
      email |-> "e1", kycVerified |-> k, isActive |-> a] : k, a \in BOOLEAN}

GenerateToken ==
    /\ \E payload \in TokenPayloads : issued' = generateToken(payload)
    /\ UNCHANGED <<now, jwtExpiresIn, held, authVars, rateVars, auditVars, maskVars, signUpVars, verifyVars, multiVars, pureVars>>

TokenTick ==
    /\ \E d \in TimeSteps : now + d <= MaxTime /\ now' = now + d
    /\ UNCHANGED <<authVars, tokenVars, rateVars, auditVars, maskVars, signUpVars, verifyVars, multiVars, pureVars>>

NextToken == GenerateToken \/ TokenTick

SpecToken == InitToken /\ [][NextToken]_vars

\* C9: whatever JWT_EXPIRES_IN holds, a token made by generateToken expires at
\* most 3600 seconds after it was issued.
C9_LifetimeAtMostOneHour ==
    issued # NoToken => issued.exp - issued.iat <= 3600

----------------------------------------------------------------------------
(* Rate limiter: one window's counter of one (endpoint, client address) *)

MaxInFlight == 2
Requests == 1..MaxInFlight

MaxLimit == 3

\* the windows array of checkRateLimit, for a configuration of small limits
Windows ==
    {[window |-> w.name, limit |-> l, seconds |-> w.seconds] :
        w \in {[name |-> "second", seconds |-> 1],
               [name |-> "minute", seconds |-> 60],
               [name |-> "hour", seconds |-> 3600],
               [name |-> "day", seconds |-> 86400]},
        l \in 1..MaxLimit}

NoKey == [none |-> TRUE]
NoResult == [none |-> TRUE]
NoExpiry == -1

\* redisClient.get then parseInt: a missing key counts as 0
RedisGet == IF rlCounter = NoKey THEN 0 ELSE rlCounter.value

\* redisClient.setEx(key, seconds, '1')
RedisSetEx(seconds) == [value |-> 1, ttlEnd |-> now + seconds]

\* redisClient.incr: a missing key is created at 1 and carries no expiry
RedisIncr ==
    IF rlCounter = NoKey THEN [value |-> 1, ttlEnd |-> NoExpiry]
    ELSE [rlCounter EXCEPT !.value = @ + 1]

\* redisClient.ttl: -2 for a missing key, -1 for a key without expiry, else the
\* time left rounded to a whole second
RedisTtl ==
    IF rlCounter = NoKey THEN {-2}
    ELSE IF rlCounter.ttlEnd = NoExpiry THEN {-1}
    ELSE {t \in {rlCounter.ttlEnd - now - 1, rlCounter.ttlEnd - now,
                 rlCounter.ttlEnd - now + 1} : 0 <= t /\ t <= rlConf.seconds}

LimitExceeded_OffByOne(count, limit) == count > limit

LimitExceeded(count, limit) == count >= limit

ResetTime(ttl) == now + (IF ttl > 0 THEN ttl ELSE rlConf.seconds)

\* the request goes on to its handler
Proceed == [status |-> 0, secondsUntilReset |-> 0]

\* an error a cache operation (connect, get, setEx, incr, ttl) rejects with
CacheError == [name |-> "Error", secondsUntilReset |-> 0]

CatchReply_RethrowsAll(error) ==
    [status |-> IF error.name = "TooManyRequestsError" THEN 429 ELSE 500,
     secondsUntilReset |-> error.secondsUntilReset]

\* the catch block of rateLimitMiddleware: a TooManyRequestsError is rethrown,
\* any other error is logged and the request allowed
CatchReply(error) ==
    IF error.name = "TooManyRequestsError"
    THEN [status |-> 429, secondsUntilReset |-> error.secondsUntilReset]
    ELSE Proceed

\* what rateLimitMiddleware makes of a window's result
rateLimitMiddleware(result) ==
    IF ~result.allowed
    THEN CatchReply([name |-> "TooManyRequestsError",
                     secondsUntilReset |-> IF result.resetTime - now > 1
                                           THEN result.resetTime - now ELSE 1])
    ELSE Proceed

IdleRequest == [pc |-> "idle", count |-> 0]

\* const current = await redisClient.get(key); the branch on count >= limit
RlGet(r) ==
    /\ rlReq[r].pc = "idle"
    /\ rlReq' = [rlReq EXCEPT ![r] =
                    [pc |-> IF LimitExceeded(RedisGet, rlConf.limit)
                            THEN "ttl-denied" ELSE "write",
                     count |-> RedisGet]]
    /\ UNCHANGED <<now, rlConf, rlCounter, rlResult, rlAdmitted>>

\* a request that starts while no other is in flight
RlGetAlone(r) ==
    /\ \A q \in Requests : rlReq[q].pc = "idle"
    /\ RlGet(r)

CounterAfterWrite(r) ==
    IF rlReq[r].count = 0 THEN RedisSetEx(rlConf.seconds) ELSE RedisIncr

AdmittedAfterWrite ==
    IF rlCounter = NoKey THEN 1
    ELSE IF rlAdmitted > rlConf.limit THEN rlAdmitted
    ELSE rlAdmitted + 1

\* setEx for the first request of a window, incr otherwise
RlWrite(r) ==
    /\ rlReq[r].pc = "write"
    /\ rlCounter' = CounterAfterWrite(r)
    /\ rlAdmitted' = AdmittedAfterWrite
    /\ rlReq' = [rlReq EXCEPT ![r].pc = "ttl-allowed"]
    /\ UNCHANGED <<now, rlConf, rlResult>>

\* const ttl = await redisClient.ttl(key) and the result returned
RlTtl(r) ==
    /\ rlReq[r].pc \in {"ttl-denied", "ttl-allowed"}
    /\ \E ttl \in RedisTtl :
          LET result == [allowed |-> rlReq[r].pc = "ttl-allowed",
                         remaining |-> IF rlReq[r].pc = "ttl-allowed"
                                       THEN rlConf.limit - rlReq[r].count - 1 ELSE 0,
                         resetTime |-> ResetTime(ttl),
                         limit |-> rlConf.limit, window |-> rlConf.window]
          IN  /\ rlReq' = [rlReq EXCEPT ![r] = IdleRequest]
              /\ rlResult' = [result |-> result,
                              reply |-> rateLimitMiddleware(result),
                              fault |-> FALSE, count |-> rlReq[r].count]
    /\ UNCHANGED <<now, rlConf, rlCounter, rlAdmitted>>

\* the cache operation a request is about to make rejects (the connection is
\* down, the command times out): checkWindowLimit rejects, and so does the
\* Promise.all of checkRateLimit; a write may have reached the cache before
\* the fault
RlFault(r) ==
    /\ \E applied \in IF rlReq[r].pc = "write" THEN BOOLEAN ELSE {FALSE} :
          /\ rlCounter' = IF applied THEN CounterAfterWrite(r) ELSE rlCounter
          /\ rlAdmitted' = IF applied THEN AdmittedAfterWrite ELSE rlAdmitted
    /\ rlReq' = [rlReq EXCEPT ![r] = IdleRequest]
    /\ rlResult' = [result |-> NoResult, reply |-> CatchReply(CacheError),
                    fault |-> TRUE, count |-> rlReq[r].count]
    /\ UNCHANGED <<now, rlConf>>

\* the instants at which the clock is observed, relative to the window length
RlInstants == {0, 1, rlConf.seconds, rlConf.seconds + 1, 2 * rlConf.seconds}

\* time passes; a counter whose TTL has elapsed disappears
RlTick ==
    /\ \E t \in RlInstants :
          /\ t > now
          /\ now' = t
          /\ rlCounter' = IF /\ rlCounter # NoKey
                             /\ rlCounter.ttlEnd # NoExpiry
                             /\ rlCounter.ttlEnd <= t
                          THEN NoKey ELSE rlCounter
    /\ UNCHANGED <<rlConf, rlReq, rlResult, rlAdmitted>>

InitRate ==
    /\ now = 0
    /\ rlConf \in Windows
    /\ rlCounter = NoKey
    /\ rlReq = [r \in Requests |-> IdleRequest]
    /\ rlResult = NoResult
    /\ rlAdmitted = 0
    /\ IdleAuth /\ IdleToken /\ IdleAudit /\ IdleMask /\ IdleSignUp /\ IdleVerify /\ IdleMulti /\ IdlePure

RateGet == (\E r \in Requests : RlGet(r)) /\ UNCHANGED <<authVars, tokenVars, auditVars, maskVars, signUpVars, verifyVars, multiVars, pureVars>>
RateGetAlone == (\E r \in Requests : RlGetAlone(r)) /\ UNCHANGED <<authVars, tokenVars, auditVars, maskVars, signUpVars, verifyVars, multiVars, pureVars>>
RateWrite == (\E r \in Requests : RlWrite(r)) /\ UNCHANGED <<authVars, tokenVars, auditVars, maskVars, signUpVars, verifyVars, multiVars, pureVars>>
RateTtl == (\E r \in Requests : RlTtl(r)) /\ UNCHANGED <<authVars, tokenVars, auditVars, maskVars, signUpVars, verifyVars, multiVars, pureVars>>
RateTick == RlTick /\ UNCHANGED <<authVars, tokenVars, auditVars, maskVars, signUpVars, verifyVars, multiVars, pureVars>>

\* requests of one client interleaving at their cache operations
NextRate == RateGet \/ RateWrite \/ RateTtl \/ RateTick

SpecRate == InitRate /\ [][NextRate]_vars

RateFault == (\E r \in Requests : RlFault(r)) /\ UNCHANGED <<authVars, tokenVars, auditVars, maskVars, signUpVars, verifyVars, multiVars, pureVars>>

\* the same with a cache whose operations may fail
NextRateFault == RateGet \/ RateWrite \/ RateTtl \/ RateTick \/ RateFault

SpecRateFault == InitRate /\ [][NextRateFault]_vars

\* requests of one client arriving one after another
NextRateSeq == RateGetAlone \/ RateWrite \/ RateTtl \/ RateTick

SpecRateSeq == InitRate /\ [][NextRateSeq]_vars

\* C4: however the requests interleave, the checks that one window allows
\* while its counter key exists never outnumber the window's limit.
C4_AllowedWithinLimit ==
    rlCounter # NoKey => rlAdmitted <= rlConf.limit

\* C5: with requests arriving one after another, a window's check allows a
\* request exactly when fewer than L requests were allowed since its counter
\* came to exist, so the first L are allowed and the (L+1)-th is denied; the
\* denial carries remaining 0 and a reset time that lies between 1 second and
\* the window length ahead, and is answered with 429.
C5_FirstLAllowedThenDenied ==
    [][\A r \in Requests :
          /\ (rlReq[r].pc = "idle" /\ rlReq'[r].pc # "idle") =>
                /\ rlAdmitted <= rlConf.limit
                /\ (rlReq'[r].pc = "ttl-denied") <=>
                      (rlCounter # NoKey /\ rlAdmitted = rlConf.limit)
          /\ (rlReq[r].pc = "ttl-denied" /\ rlReq'[r].pc = "idle") =>
                /\ ~rlResult'.result.allowed
                /\ rlResult'.result.remaining = 0
                /\ rlResult'.result.resetTime - now >= 1
                /\ rlResult'.result.resetTime - now <= rlConf.seconds
                /\ rlResult'.reply.status = 429
                /\ rlResult'.reply.secondsUntilReset >= 1
                /\ rlResult'.reply.secondsUntilReset <= rlConf.seconds
          /\ (rlReq[r].pc = "ttl-allowed" /\ rlReq'[r].pc = "idle") =>
                /\ rlResult'.result.allowed
                /\ rlResult'.reply.status # 429
      ]_vars

\* the (L+1)-th request of a counter's lifetime was just denied
C5_Witness ==
    /\ rlResult # NoResult
    /\ ~rlResult.result.allowed
    /\ rlResult.reply.status = 429
    /\ \A r \in Requests : rlReq[r].pc = "idle"
    /\ rlCounter # NoKey
    /\ rlAdmitted = rlConf.limit
    /\ rlCounter.value = rlConf.limit

----------------------------------------------------------------------------
(* Audit pipeline: auditMiddlewareOnResponse and processAuditQueue *)

MaxEntries == 4
BatchSize == 100

Range(q) == {q[i] : i \in 1..Len(q)}

Min(a, b) == IF a < b THEN a ELSE b

\* a response was sent: its entry is queued and, unless a flush cycle is
\* running, a processAuditQueue callback is scheduled
AuditOnResponse ==
    /\ auditSeen < MaxEntries
    /\ auditSeen' = auditSeen + 1
    /\ auditLogQueue' = Append(auditLogQueue, auditSeen + 1)
    /\ auditTimers' = IF ~queueProcessing THEN auditTimers + 1 ELSE auditTimers
    /\ UNCHANGED <<queueProcessing, auditFlush, auditStore, auditErrors>>

FlushBlocked_IgnoresFlag == Len(auditLogQueue) = 0

\* if (queueProcessing || auditLogQueue.length === 0) return
FlushBlocked == queueProcessing \/ Len(auditLogQueue) = 0

\* a scheduled callback runs processAuditQueue up to its await of createMany
ProcessAuditQueue ==
    /\ auditTimers > 0
    /\ auditTimers' = auditTimers - 1
    /\ IF FlushBlocked
       THEN UNCHANGED <<auditLogQueue, queueProcessing, auditFlush>>
       ELSE /\ queueProcessing' = TRUE
            /\ auditFlush' = auditFlush \cup
                  {[batch |-> SubSeq(auditLogQueue, 1, Min(BatchSize, Len(auditLogQueue))),
                    phase |-> "write"]}
            /\ auditLogQueue' =
                  SubSeq(auditLogQueue, Min(BatchSize, Len(auditLogQueue)) + 1,
                         Len(auditLogQueue))
    /\ UNCHANGED <<auditStore, auditSeen, auditErrors>>

AfterFailure_Rethrown(errors) == [errors EXCEPT !.raised = TRUE]

\* the catch blocks of processAuditQueue and of checkSuspiciousActivities: the
\* error is logged and goes no further
AfterFailure(errors) == [errors EXCEPT !.logged = TRUE]

\* createMany resolved: the rows are stored and the cycle awaits
\* checkSuspiciousActivities
WriteResolved(c) ==
    /\ c \in auditFlush /\ c.phase = "write"
    /\ auditStore' = auditStore \o c.batch
    /\ auditFlush' = (auditFlush \ {c}) \cup {[c EXCEPT !.phase = "scan"]}
    /\ UNCHANGED <<auditLogQueue, queueProcessing, auditTimers, auditSeen, auditErrors>>

FinishFlush_NoReschedule(c, failed) ==
    /\ c \in auditFlush
    /\ c.phase = "write" => failed
    /\ auditErrors' = IF failed THEN AfterFailure(auditErrors) ELSE auditErrors
    /\ auditFlush' = auditFlush \ {c}
    /\ queueProcessing' = FALSE
    /\ UNCHANGED <<auditLogQueue, auditStore, auditSeen, auditTimers>>

\* the end of a flush cycle: after a rejected createMany (failed, in phase
\* "write") or after the scan, which may have failed too (in phase "scan"),
\* the finally block clears the flag and reschedules
FinishFlush(c, failed) ==
    /\ c \in auditFlush
    /\ c.phase = "write" => failed
    /\ auditErrors' = IF failed THEN AfterFailure(auditErrors) ELSE auditErrors
    /\ auditFlush' = auditFlush \ {c}
    /\ queueProcessing' = FALSE
    /\ auditTimers' = IF Len(auditLogQueue) > 0 THEN auditTimers + 1 ELSE auditTimers
    /\ UNCHANGED <<auditLogQueue, auditStore, auditSeen>>

NoErrors == [logged |-> FALSE, raised |-> FALSE]

InitAudit ==
    /\ now = 0
    /\ auditLogQueue = <<>>
    /\ queueProcessing = FALSE
    /\ auditTimers = 0
    /\ auditFlush = {}
    /\ auditStore = <<>>
    /\ auditSeen = 0
    /\ auditErrors = NoErrors
    /\ IdleAuth /\ IdleToken /\ IdleRate /\ IdleMask /\ IdleSignUp /\ IdleVerify /\ IdleMulti /\ IdlePure

AuditPush == AuditOnResponse /\ UNCHANGED <<now, authVars, tokenVars, rateVars, maskVars, signUpVars, verifyVars, multiVars, pureVars>>
AuditRun == ProcessAuditQueue /\ UNCHANGED <<now, authVars, tokenVars, rateVars, maskVars, signUpVars, verifyVars, multiVars, pureVars>>
AuditWritten ==
    /\ \E c \in auditFlush : WriteResolved(c)
    /\ UNCHANGED <<now, authVars, tokenVars, rateVars, maskVars, signUpVars, verifyVars, multiVars, pureVars>>
AuditWriteFailed ==
    /\ \E c \in auditFlush : c.phase = "write" /\ FinishFlush(c, TRUE)
    /\ UNCHANGED <<now, authVars, tokenVars, rateVars, maskVars, signUpVars, verifyVars, multiVars, pureVars>>
AuditScanned ==
    /\ \E c \in auditFlush : c.phase = "scan" /\ FinishFlush(c, FALSE)
    /\ UNCHANGED <<now, authVars, tokenVars, rateVars, maskVars, signUpVars, verifyVars, multiVars, pureVars>>
AuditScanFailed ==
    /\ \E c \in auditFlush : c.phase = "scan" /\ FinishFlush(c, TRUE)
    /\ UNCHANGED <<now, authVars, tokenVars, rateVars, maskVars, signUpVars, verifyVars, multiVars, pureVars>>

NextAudit ==
    \/ AuditPush \/ AuditRun \/ AuditWritten \/ AuditWriteFailed
    \/ AuditScanned \/ AuditScanFailed

SpecAudit == InitAudit /\ [][NextAudit]_vars

\* C7: no audit entry is lost to a failed store write: every entry ever queued
\* is in the queue, in the batch being written, or in the store; in particular
\* the entries of a batch whose write failed are in the queue again when the
\* cycle ends.
C7_NoEntryLost ==
    \A id \in 1..auditSeen :
        \/ id \in Range(auditLogQueue)
        \/ \E c \in auditFlush : id \in Range(c.batch)
        \/ id \in Range(auditStore)

----------------------------------------------------------------------------
(* Masking of audit bodies: maskSensitiveData *)

MaxDepth == 3

Mask == [type |-> "string", value |-> "***MASKED***"]
NoOutput == [none |-> TRUE]

\* the field names of maskSensitiveData, as written in the source
sensitiveFields ==
    {<<"p", "a", "s", "s", "w", "o", "r", "d">>, <<"t", "o", "k", "e", "n">>,
     <<"o", "t", "p">>, <<"p", "i", "n">>, <<"s", "e", "c", "r", "e", "t">>,
     <<"a", "p", "i", "K", "e", "y">>,
     <<"a", "u", "t", "h", "o", "r", "i", "z", "a", "t", "i", "o", "n">>}

UpperLetters == <<"A", "B", "C", "D", "E", "F", "G", "H", "I", "J", "K", "L", "M",
                  "N", "O", "P", "Q", "R", "S", "T", "U", "V", "W", "X", "Y", "Z">>
LowerLetters == <<"a", "b", "c", "d", "e", "f", "g", "h", "i", "j", "k", "l", "m",
                  "n", "o", "p", "q", "r", "s", "t", "u", "v", "w", "x", "y", "z">>

\* String.prototype.toLowerCase
toLowerCase(k) ==
    [i \in 1..Len(k) |->
        IF \E j \in 1..Len(UpperLetters) : UpperLetters[j] = k[i]
        THEN LowerLetters[CHOOSE j \in 1..Len(UpperLetters) : UpperLetters[j] = k[i]]
        ELSE k[i]]

\* String.prototype.includes
includes(k, field) ==
    \E i \in 1..(Len(k) - Len(field) + 1) : SubSeq(k, i, i + Len(field) - 1) = field

\* Object.entries of an object or of an array (whose keys are its indices)
Entries(data) ==
    IF data.type = "array"
    THEN [i \in 1..Len(data.items) |-> [key |-> <<"0">>, value |-> data.items[i]]]
    ELSE data.entries

RECURSIVE maskSensitiveData(_)
maskSensitiveData(data) ==
    IF data.type \notin {"object", "array"} THEN data
    ELSE LET masked ==
                 [i \in 1..Len(Entries(data)) |->
                    LET key == Entries(data)[i].key
                        value == Entries(data)[i].value
                        lowerKey == toLowerCase(key)
                    IN  IF \E field \in sensitiveFields : includes(lowerKey, field)
                        THEN Mask
                        ELSE IF value.type \in {"object", "array"}
                             THEN maskSensitiveData(value)
                             ELSE value]
         IN  IF data.type = "array"
             THEN [type |-> "array", items |-> masked]
             ELSE [type |-> "object",
                   entries |-> [i \in 1..Len(masked) |->
                                   [key |-> data.entries[i].key, value |-> masked[i]]]]

\* request bodies: keys and values of a few shapes, nested up to MaxDepth
BodyKeys ==
    {<<"n", "a", "m", "e">>, <<"O", "T", "P">>, <<"a", "p", "i", "K", "e", "y">>,
     <<"n", "e", "w", "P", "a", "s", "s", "w", "o", "r", "d">>}

Leaves == {[type |-> "string", value |-> "v1"]}

RECURSIVE BodiesOfDepth(_)
BodiesOfDepth(d) ==
    IF d = 0 THEN Leaves
    ELSE LET inner == BodiesOfDepth(d - 1)
         IN  inner
             \cup {[type |-> "object", entries |-> <<[key |-> k, value |-> v]>>] :
                      k \in BodyKeys, v \in inner}
             \cup {[type |-> "array", items |-> <<v>>] : v \in inner}

Bodies ==
    BodiesOfDepth(MaxDepth)
    \cup {[type |-> "object",
           entries |-> <<[key |-> k1, value |-> v], [key |-> k2, value |-> v]>>] :
              k1 \in BodyKeys, k2 \in BodyKeys, v \in BodiesOfDepth(1)}

InitMask ==
    /\ now = 0
    /\ maskInput \in Bodies
    /\ maskOutput = NoOutput
    /\ IdleAuth /\ IdleToken /\ IdleRate /\ IdleAudit /\ IdleSignUp /\ IdleVerify /\ IdleMulti /\ IdlePure

\* const maskedBody = request.body ? maskSensitiveData(request.body) : undefined
MaskBody ==
    /\ maskOutput = NoOutput
    /\ maskOutput' = maskSensitiveData(maskInput)
    /\ UNCHANGED <<now, maskInput, authVars, tokenVars, rateVars, auditVars, signUpVars, verifyVars, multiVars, pureVars>>

NextMask == MaskBody

SpecMask == InitMask /\ [][NextMask]_vars

\* a key that contains one of the sensitive names, compared without regard to case
SensitiveKey(k) ==
    \E field \in sensitiveFields : includes(toLowerCase(k), toLowerCase(field))

\* the values found in a body under a sensitive key, at any depth
RECURSIVE ValuesUnderSensitiveKeys(_)
ValuesUnderSensitiveKeys(data) ==
    IF data.type = "object"
    THEN UNION {IF SensitiveKey(data.entries[i].key)
                THEN {data.entries[i].value}
                ELSE ValuesUnderSensitiveKeys(data.entries[i].value) :
                    i \in 1..Len(data.entries)}
    ELSE IF data.type = "array"
    THEN UNION {ValuesUnderSensitiveKeys(data.items[i]) : i \in 1..Len(data.items)}
    ELSE {}

\* C6: in the output of maskSensitiveData every key that contains, whatever
\* the case, password, token, otp, pin, secret, apiKey or authorization holds
\* the fixed mask, at every depth and inside arrays.
C6_SensitiveKeysMasked ==
    maskOutput # NoOutput => ValuesUnderSensitiveKeys(maskOutput) \subseteq {Mask}

----------------------------------------------------------------------------
(* Properties of the authentication service *)

\* C1: in a first-activation session (isMfaOnly = FALSE) a verifyOtp call returns
\* a signed token exactly when, once the flag of the channel just verified is
\* set, both emailOtpVerified and smsOtpVerified of the session are true; every
\* other successful verification returns requiresOtp with the session token and
\* no signed token, and the session, carrying the new flag, is still readable.
C1_TokenIffBothChannelsVerified ==
    [][\A t \in 1..MaxSessions, o \in OtpValues, ty \in OtpTypes :
          (/\ resp'.op = "verifyOtp"
           /\ VerifyOtp(t, "", o, ty)
           /\ SessionVisible(t)
           /\ ~sessions[t].isMfaOnly)
          => LET emailDone == ty = "email" \/ sessions[t].emailOtpVerified
                 smsDone == ty \in {"mobile", "sms"} \/ sessions[t].smsOtpVerified
             IN  /\ resp'.token # NoToken => resp'.status = 200 /\ emailDone /\ smsDone
                 /\ resp'.status = 200 /\ emailDone /\ smsDone =>
                        resp'.token # NoToken /\ ~resp'.requiresOtp
                 /\ resp'.status = 200 /\ ~(emailDone /\ smsDone) =>
                        /\ resp'.requiresOtp
                        /\ resp'.mfaSessionToken = t
                        /\ resp'.token = NoToken
                        /\ t \in DOMAIN sessions'
                        /\ now' <= sessions'[t].ttlEnd
                        /\ now' <= sessions'[t].expiresAt
                        /\ sessions'[t].emailOtpVerified = emailDone
                        /\ sessions'[t].smsOtpVerified = smsDone
      ]_vars

\* a first-activation session whose second channel was just verified: the call
\* answered with a signed token for the account it activated
C1_Witness ==
    /\ resp.op = "verifyOtp"
    /\ resp.flow = "first-activation"
    /\ resp.status = 200
    /\ resp.token # NoToken
    /\ \E e \in Registered : merchants[e].isActive /\ merchants[e].is2faActive

\* a sign-in whose password is right, on an account that is not active or lacks
\* a verified channel
NotFullyVerifiedSignIn(e, p) ==
    /\ e \in Registered
    /\ p = merchants[e].password[2]
    /\ \/ ~merchants[e].isActive
       \/ ~merchants[e].isEmailVerified
       \/ ~merchants[e].isMobileVerified

C8_ActiveImpliesVerified ==
    \A e \in Registered :
        merchants[e].isActive =>
            merchants[e].isEmailVerified /\ merchants[e].isMobileVerified

\* C2: once three OTP checks on a session have failed, every later verifyOtp
\* call with that session token fails as Unauthorized whatever code it carries,
\* leaves no session behind, and leaves the account flags as they were.
C2_LockedAfterThreeFailedChecks ==
    [][\A t \in 1..MaxSessions, o \in OtpValues, ty \in OtpTypes :
          (/\ resp'.op = "verifyOtp"
           /\ t \in DOMAIN failedChecks
           /\ failedChecks[t] >= MaxAttempts
           /\ VerifyOtp(t, "", o, ty))
          => /\ resp'.status = 401
             /\ resp'.token = NoToken
             /\ t \notin DOMAIN sessions'
             /\ merchants' = merchants
      ]_vars

\* a code of this email, value and channel that a verification has marked used
UsedCode(e, o, ty) ==
    \E i \in 1..Len(otps) :
        /\ otps[i].email = e /\ otps[i].otp = o /\ otps[i].otpType = ty
        /\ otps[i].isUsed

\* another code of the same email, value and channel that is still unused
UnusedTwin(e, o, ty) ==
    \E i \in 1..Len(otps) :
        /\ otps[i].email = e /\ otps[i].otp = o /\ otps[i].otpType = ty
        /\ ~otps[i].isUsed

DispatchedCode(t, o, ty) ==
    \E i \in 1..Len(otps) :
        /\ otps[i].email = sessions[t].email /\ otps[i].otp = o
        /\ otps[i].otpType = ty /\ ~otps[i].isUsed
        /\ otps[i].createdAt = sessions[t].expiresAt - SessionLifetime

\* C11: in a first-activation session that is still alive and has seen no failed
\* check, presenting the code that signIn dispatched for a channel succeeds;
\* when neither channel is verified yet (first verification) the call returns
\* no token and persists the verified flag of its own channel only; when the
\* other channel is already verified (second verification) it returns a signed
\* token and leaves the account active, MFA-enabled, email-verified and
\* phone-verified.  This holds for the email code and the sms code in either
\* order.
C11_BothCodesActivate ==
    [][\A t \in 1..MaxSessions, o \in OtpValues, ty \in OtpTypes :
          (/\ resp'.op = "verifyOtp"
           /\ t \in DOMAIN failedChecks
           /\ failedChecks[t] = 0
           /\ SessionVisible(t)
           /\ now <= sessions[t].expiresAt
           /\ ~sessions[t].isMfaOnly
           /\ DispatchedCode(t, o, ty)
           /\ VerifyOtp(t, "", o, ty))
          => LET s == sessions[t]
                 e == s.email
                 otherDone == IF ty = "email" THEN s.smsOtpVerified
                              ELSE s.emailOtpVerified
             IN  IF ~s.emailOtpVerified /\ ~s.smsOtpVerified
                 THEN /\ resp'.status = 200
                      /\ resp'.token = NoToken
                      /\ merchants' =
                            IF ty = "email"
                            THEN [merchants EXCEPT ![e].isEmailVerified = TRUE]
                            ELSE [merchants EXCEPT ![e].isMobileVerified = TRUE]
                 ELSE otherDone =>
                      /\ resp'.status = 200
                      /\ resp'.token # NoToken
                      /\ merchants'[e].isActive /\ merchants'[e].is2faActive
                      /\ merchants'[e].isEmailVerified /\ merchants'[e].isMobileVerified
      ]_vars

\* C12: requestPasswordReset gives the same answer whether or not the email
\* belongs to an account: every call is answered as a call for an unregistered
\* email is, with success and the generic message, so that the answers of two
\* runs that differ only in the email being registered are equal.
C12_ResetResponseHidesAccount ==
    [][\A e \in Emails, o \in OtpValues, sent \in BOOLEAN :
          (/\ resp'.op = "requestPasswordReset"
           /\ RequestPasswordReset(e, o, sent))
          => /\ resp'.status = 200
             /\ resp'.message = ResetGeneric
      ]_vars

\* C13: a signIn for an email without account and a signIn with a wrong
\* password on an existing account get one and the same answer, 401 with the
\* message "Invalid email or password", and neither stores an MFA session or a
\* one-time code nor dispatches anything.
C13_SignInFailuresIndistinguishable ==
    [][\A e \in Emails, p \in Passwords, eo \in OtpValues, so \in OtpValues,
          es \in BOOLEAN, ss \in BOOLEAN :
          (/\ resp'.op = "signIn"
           /\ (e \notin Registered \/ p # merchants[e].password[2])
           /\ SignIn(e, p, eo, so, es, ss))
          => /\ resp' = [NoResp EXCEPT !.op = "signIn", !.status = 401,
                                       !.message = InvalidCredentials]
             /\ resp'.dispatched = {}
             /\ sessions' = sessions
             /\ otps' = otps
             /\ nextToken' = nextToken
             /\ merchants' = merchants
      ]_vars

\* a sign-in with a wrong password on an account that exists was just refused,
\* and nothing is stored for it
C13_Witness ==
    /\ resp.op = "signIn"
    /\ resp.status = 401
    /\ resp.message = InvalidCredentials
    /\ \E e \in Emails : e \in Registered
    /\ otps = <<>>
    /\ sessions = <<>>

\* C14: a signIn during which the dispatch of a one-time code failed, be it the
\* email code or the sms code of first activation or the sms code of routine
\* MFA, is answered with 503 and not with a success response.
C14_DispatchFailureIsUnavailable ==
    (resp.op = "signIn" /\ resp.failed # {}) =>
        /\ resp.status = 503
        /\ ~resp.requiresOtp
        /\ resp.mfaSessionToken = NoSession

\* C15: a request whose rate-limit check met a failing cache operation goes on
\* to its handler; the middleware answers 429 only for a check that ran to its
\* end and found the window's count at or above the limit, and never answers
\* with any other error.
C15_FailsOpen ==
    rlResult # NoResult =>
        /\ rlResult.reply.status \in {0, 429}
        /\ rlResult.fault => rlResult.reply = Proceed
        /\ rlResult.reply.status = 429 =>
              /\ ~rlResult.fault
              /\ ~rlResult.result.allowed
              /\ rlResult.count >= rlConf.limit

\* a request read a count below the limit, a later cache operation of it failed, and
\* it was let through
C15_Witness ==
    /\ rlResult # NoResult
    /\ rlResult.fault
    /\ rlResult.count > 0
    /\ rlResult.count < rlConf.limit
    /\ rlResult.reply.status = 0

\* C16: whenever a window's counter key is present in the cache it carries an
\* expiry, and that expiry lies no further ahead than the window length, so
\* that the key is gone, and the count back at zero, once the window has
\* elapsed.
C16_CounterAlwaysExpires ==
    rlCounter # NoKey =>
        /\ rlCounter.ttlEnd # NoExpiry
        /\ rlCounter.ttlEnd - now <= rlConf.seconds

\* C17: at every moment at most one flush cycle is between its dequeue and the
\* end of its batch write (indeed at most one cycle is under way at all), no
\* audit entry appears in the store more than once, and an entry that arrives
\* while a cycle is running is appended to the queue and nothing else: no
\* callback is scheduled, no cycle starts, nothing is written.
C17_SingleFlushNoDuplicates ==
    [][/\ Cardinality(auditFlush') <= 1
       /\ \A i, j \in 1..Len(auditStore') :
             auditStore'[i] = auditStore'[j] => i = j
       /\ (AuditPush /\ queueProcessing) =>
             /\ auditLogQueue' = Append(auditLogQueue, auditSeen')
             /\ auditTimers' = auditTimers
             /\ auditFlush' = auditFlush
             /\ auditStore' = auditStore
      ]_vars

\* two entries arrived during a flush cycle that follows an earlier, completed
\* one: they wait in the queue, no callback is pending, one cycle is under way
C17_Witness ==
    /\ queueProcessing
    /\ Cardinality(auditFlush) = 1
    /\ Len(auditLogQueue) = 2
    /\ auditTimers = 0
    /\ Len(auditStore) > 0

\* C18: a failure of the batch write or of the suspicious-activity scan is
\* logged and never leaves processAuditQueue: it raises nothing towards a
\* request, leaves the entries queued by other requests as they are, and ends
\* its cycle with the flush flag cleared and, when entries are waiting, a
\* further cycle scheduled.
C18_PipelineFaultsContained ==
    [][/\ ~auditErrors'.raised
       /\ (AuditWriteFailed \/ AuditScanFailed) =>
             /\ auditErrors'.logged
             /\ auditLogQueue' = auditLogQueue
             /\ ~queueProcessing'
             /\ Len(auditLogQueue') > 0 => auditTimers' > 0
      ]_vars

\* a batch write failed and was logged, and a cycle that ran later stored an
\* entry that had been queued after the ones of the failed batch
C18_Witness ==
    /\ auditErrors.logged
    /\ ~queueProcessing
    /\ \E id \in 1..auditSeen :
          /\ id \notin Range(auditStore)
          /\ id \notin Range(auditLogQueue)
          /\ \E later \in Range(auditStore) : later > id

\* C19: a request that bears a token which has not expired, of an account that
\* is inactive in the store at the time of the request, is rejected by the
\* authenticate middleware and is given no renewed token.
C19_InactiveAccountRejected ==
    [][\A tok \in held :
          (/\ resp'.op = "authenticate"
           /\ now < tok.exp
           /\ tok.email \in Registered
           /\ ~merchants[tok.email].isActive
           /\ Authenticate(tok))
          => /\ resp'.status = 401
             /\ resp'.token = NoToken
      ]_vars


\* ---------------------------------------------------------------------------
\* Concurrent registrations: signUp as the steps between its awaits
\* ---------------------------------------------------------------------------

MaxSignUps == 2
SuRequests == 1..MaxSignUps
SuEmails == {"e1", "e2"}
SuMobiles == {"m1", "m2"}
SuPasswords == {"password1"}

NoSignUp == [pc |-> "idle", email |-> "", mobile |-> "", password |-> "",
             id |-> "", attempts |-> 0, status |-> 0]

\* prisma.merchantsMaster.findFirst({ where: { mobile } })
MobileRegistered(mobile) == \E e \in Registered : merchants[e].mobile = mobile

NewMerchant(email, mobile, password, id) ==
    [email |-> email, mobile |-> mobile, password |-> hashPassword(password),
     nineteenMerchantId |-> id,
     isActive |-> FALSE, is2faActive |-> FALSE,
     isMobileVerified |-> FALSE, isEmailVerified |-> FALSE]

\* prisma.merchantsMaster.create: the store refuses a row that repeats a
\* column it keeps unique (email and public ID are looked up with findUnique;
\* whether the phone column is unique is a property of the deployed store)
CreateRejected(row) ==
    \/ row.email \in Registered
    \/ row.nineteenMerchantId \in UsedIds
    \/ mobileUnique /\ MobileRegistered(row.mobile)

SuDone(r, status) == suReq' = [suReq EXCEPT ![r].pc = "done", ![r].status = status]

\* a request arrives and looks its email up
SuCheckEmail(r, email, mobile, password) ==
    /\ suReq[r].pc \in {"idle", "done"}
    /\ suReq' = [suReq EXCEPT ![r] =
          IF email \in Registered
          THEN [NoSignUp EXCEPT !.pc = "done", !.email = email, !.mobile = mobile,
                                !.password = password, !.status = 409]
          ELSE [NoSignUp EXCEPT !.pc = "check-mobile", !.email = email,
                                !.mobile = mobile, !.password = password]]
    /\ UNCHANGED <<merchants, mobileUnique>>

SuCheckMobile(r) ==
    /\ suReq[r].pc = "check-mobile"
    /\ IF MobileRegistered(suReq[r].mobile)
       THEN SuDone(r, 409)
       ELSE suReq' = [suReq EXCEPT ![r].pc = "allocate"]
    /\ UNCHANGED <<merchants, mobileUnique>>

SuAllocate(r, draws) ==
    /\ suReq[r].pc = "allocate"
    /\ LET id == AllocateId(draws, 0, UsedIds)
           attempts == AllocateAttempts(draws, 0, UsedIds)
       IN  IF id = ""
           THEN suReq' = [suReq EXCEPT ![r].pc = "done", ![r].status = 500,
                                       ![r].attempts = attempts]
           ELSE suReq' = [suReq EXCEPT ![r].pc = "create", ![r].id = id,
                                       ![r].attempts = attempts]
    /\ UNCHANGED <<merchants, mobileUnique>>

SuCreate(r) ==
    /\ suReq[r].pc = "create"
    /\ LET row == NewMerchant(suReq[r].email, suReq[r].mobile,
                              suReq[r].password, suReq[r].id)
       IN  IF CreateRejected(row)
           THEN SuDone(r, 500) /\ UNCHANGED merchants
           ELSE /\ merchants' = [e \in Registered \cup {row.email} |->
                                    IF e = row.email THEN row ELSE merchants[e]]
                /\ SuDone(r, 201)
    /\ UNCHANGED mobileUnique

SuIdleRest ==
    UNCHANGED <<now, otps, sessions, nextToken, resp, failedChecks,
                tokenVars, rateVars, auditVars, maskVars, verifyVars, multiVars, pureVars>>

SignUpArrives ==
    /\ \E r \in SuRequests, e \in SuEmails, m \in SuMobiles, p \in SuPasswords :
          SuCheckEmail(r, e, m, p)
    /\ SuIdleRest

SignUpChecksMobile == (\E r \in SuRequests : SuCheckMobile(r)) /\ SuIdleRest

SignUpAllocates ==
    /\ \E r \in SuRequests, draws \in DrawSeqs : SuAllocate(r, draws)
    /\ SuIdleRest

SignUpCreates == (\E r \in SuRequests : SuCreate(r)) /\ SuIdleRest

InitSignUp ==
    /\ now = 0
    /\ merchants = <<>> /\ otps = <<>> /\ sessions = <<>> /\ nextToken = 0
    /\ resp = NoResp /\ failedChecks = <<>>
    /\ suReq = [r \in SuRequests |-> NoSignUp]
    /\ mobileUnique \in BOOLEAN
    /\ IdleToken /\ IdleRate /\ IdleAudit /\ IdleMask /\ IdleVerify /\ IdleMulti /\ IdlePure

NextSignUp == SignUpArrives \/ SignUpChecksMobile \/ SignUpAllocates \/ SignUpCreates

SpecSignUp == InitSignUp /\ [][NextSignUp]_vars

\* C20: signUp fails with 409 and creates no account when the email or the
\* phone is already registered, and whatever the interleaving of the store
\* reads and writes of several signUps, no two accounts share an email or a
\* phone (accounts are keyed by email, so a shared email would show as a
\* lost account; a shared phone shows as two rows with one phone).
C20_NoSharedEmailOrPhone ==
    [][ /\ \A r \in SuRequests :
            /\ suReq[r].pc \in {"idle", "done"} /\ suReq'[r] # suReq[r]
               /\ suReq'[r].email \in Registered
               => suReq'[r].status = 409 /\ merchants' = merchants
            /\ suReq[r].pc = "check-mobile" /\ suReq'[r].pc # "check-mobile"
               /\ MobileRegistered(suReq[r].mobile)
               => suReq'[r].status = 409 /\ merchants' = merchants
        /\ \A e1 \in DOMAIN merchants', e2 \in DOMAIN merchants' :
              e1 # e2 => merchants'[e1].mobile # merchants'[e2].mobile
        /\ \A e \in Registered : e \in DOMAIN merchants' /\ merchants'[e] = merchants[e]
      ]_vars

\* the codes of the same email and channel as row i that are unused and
\* unexpired and were created after it
NewerLiveCodes(i) ==
    {j \in 1..Len(otps) :
        /\ otps[j].createdAt > otps[i].createdAt
        /\ otps[j].email = otps[i].email /\ otps[j].otpType = otps[i].otpType
        /\ ~otps[j].isUsed /\ now <= otps[j].expiresAt}

\* C21: verifyOtp accepts a code only if it is the most recently created
\* unused, unexpired code of its email and channel: once a newer code has been
\* issued for the same email and channel, an older unused code is not accepted.
C21_OnlyNewestCodeAccepted ==
    [][ resp'.op = "verifyOtp" /\ resp'.status = 200 =>
          \A i \in 1..Len(otps) :
              ~otps[i].isUsed /\ otps'[i].isUsed => NewerLiveCodes(i) = {}
      ]_vars

\* ---------------------------------------------------------------------------
\* Concurrent verifications: verifyOtp and verifyPasswordReset as the steps
\* between their awaits
\* ---------------------------------------------------------------------------

MaxVerifiers == 2
VfRequests == 1..MaxVerifiers
ResetPasswords == {"password2"}

\* session: the request's own parsed copy of the cached session
\* merchant: the account row the request last read or wrote
NoVerify ==
    [op |-> "", pc |-> "idle", sess |-> NoSession, email |-> "", otp |-> "",
     otpType |-> "", newPassword |-> "", session |-> <<>>, row |-> 0,
     merchant |-> <<>>, activates |-> FALSE,
     status |-> 0, token |-> NoToken, requiresOtp |-> FALSE]

VfBySession(r) == vReq[r].sess # NoSession

\* the request has answered: what it read on the way is gone; of a request
\* that succeeded, the session, the channel and the code row it consumed are
\* kept for the record
VfEnd(r, status) ==
    IF status = 200
    THEN [NoVerify EXCEPT !.op = vReq[r].op, !.pc = "done", !.sess = vReq[r].sess,
                          !.otpType = vReq[r].otpType, !.row = vReq[r].row,
                          !.status = status]
    ELSE [NoVerify EXCEPT !.pc = "done", !.status = status]

\* request slots are interchangeable: a new request takes the first free one
VfFree(r) ==
    /\ vReq[r].pc \in {"idle", "done"}
    /\ \A q \in VfRequests : q < r => vReq[q].pc \notin {"idle", "done"}

\* one more failed code check on a session, counted one past the limit at most
CountFailed(sess) ==
    [failedChecks EXCEPT ![sess] = IF @ <= MaxAttempts THEN @ + 1 ELSE @]

\* the request arrives; with a session token it reads the session from the cache
VfLoad(r, sess, email, otp, otpType) ==
    LET s == sessions[sess]
        req == [NoVerify EXCEPT !.op = "verifyOtp", !.sess = sess, !.otp = otp,
                                !.otpType = otpType]
        outcome ==
            IF sess = NoSession THEN "find"
            ELSE IF ~SessionVisible(sess) THEN "no-session"
            ELSE IF now > s.expiresAt THEN "session-expired"
            ELSE IF s.attempts >= MaxAttempts THEN "too-many-attempts"
            ELSE IF ChannelRefused(s, otpType) THEN "email-on-mfa"
            ELSE "find"
    IN  /\ VfFree(r)
        /\ vReq' = [vReq EXCEPT ![r] =
              CASE outcome = "find" ->
                      [req EXCEPT !.pc = "find",
                                  !.email = IF sess = NoSession THEN email ELSE s.email,
                                  !.session = IF sess = NoSession THEN <<>> ELSE s]
                [] outcome = "email-on-mfa" ->
                      [NoVerify EXCEPT !.pc = "done", !.status = 400]
                [] OTHER -> [NoVerify EXCEPT !.pc = "done", !.status = 401]]
        /\ sessions' = IF outcome \in {"session-expired", "too-many-attempts"}
                       THEN DeleteSession(sessions, sess) ELSE sessions
        /\ UNCHANGED <<merchants, otps, failedChecks>>

\* prisma.merchantOtp.findFirst, and the expiry test on the row found
VfFind(r) ==
    LET q == vReq[r]
        rows == UnusedMatches(q.email, q.otp, q.otpType)
        row == MostRecent(rows)
    IN  /\ q.op = "verifyOtp" /\ q.pc = "find"
        /\ vReq' = [vReq EXCEPT ![r] =
              IF rows = {}
              THEN IF VfBySession(r)
                   THEN [q EXCEPT !.pc = "bump", !.session.attempts = @ + 1]
                   ELSE VfEnd(r, 401)
              ELSE IF now > otps[row].expiresAt THEN VfEnd(r, 401)
              ELSE [q EXCEPT !.pc = "mark", !.row = row]]
        /\ failedChecks' =
              IF VfBySession(r) /\ (rows = {} \/ now > otps[row].expiresAt)
              THEN CountFailed(q.sess) ELSE failedChecks
        /\ UNCHANGED <<merchants, otps, sessions>>

\* the session is written back with the incremented attempts of the request's copy
VfBump(r) ==
    LET q == vReq[r]
        ttl == q.session.expiresAt - now
    IN  /\ q.op = "verifyOtp" /\ q.pc = "bump"
        /\ sessions' = IF SetExOk(ttl)
                       THEN StoreSession(sessions, q.sess, q.session, ttl)
                       ELSE sessions
        /\ vReq' = [vReq EXCEPT ![r] = VfEnd(r, IF SetExOk(ttl) THEN 401 ELSE 500)]
        /\ UNCHANGED <<merchants, otps, failedChecks>>

\* prisma.merchantOtp.update({ where: { id }, data: { isUsed: true } })
VfMark(r) ==
    /\ vReq[r].op = "verifyOtp" /\ vReq[r].pc = "mark"
    /\ otps' = MarkUsed(vReq[r].row)
    /\ vReq' = [vReq EXCEPT ![r].pc = "merchant"]
    /\ UNCHANGED <<merchants, sessions, failedChecks>>

\* the account is read, and the branch is chosen from the request's own copy
\* of the session
VfMerchant(r) ==
    LET q == vReq[r]
        m == merchants[q.email]
        marked == MarkChannel(q.session, q.otpType)
        willBeEmailVerified == IF q.otpType = "email" THEN TRUE ELSE m.isEmailVerified
        willBeMobileVerified == IF IsSms(q.otpType) THEN TRUE ELSE m.isMobileVerified
    IN  /\ q.op = "verifyOtp" /\ q.pc = "merchant"
        /\ vReq' = [vReq EXCEPT ![r] =
              IF q.email \notin Registered THEN VfEnd(r, 404)
              ELSE IF ~VfBySession(r)
                   THEN [q EXCEPT !.pc = "legacy-update", !.merchant = m,
                                  !.activates = willBeEmailVerified /\ willBeMobileVerified]
              ELSE IF q.session.isMfaOnly
                   THEN [q EXCEPT !.pc = "mfa-read", !.merchant = m,
                                  !.session = marked]
              ELSE [q EXCEPT !.pc = IF allVerified(marked) THEN "activate"
                                    ELSE "partial-save",
                             !.merchant = m, !.session = marked]]
        /\ UNCHANGED <<merchants, otps, sessions, failedChecks>>

VfMfaRead(r) ==
    /\ vReq[r].op = "verifyOtp" /\ vReq[r].pc = "mfa-read"
    /\ vReq' = [vReq EXCEPT ![r].pc = "delete", ![r].merchant = merchants[vReq[r].email]]
    /\ UNCHANGED <<merchants, otps, sessions, failedChecks>>

VfActivate(r) ==
    LET allFlags == {"isActive", "is2faActive", "isEmailVerified", "isMobileVerified"}
    IN  /\ vReq[r].op = "verifyOtp" /\ vReq[r].pc = "activate"
        /\ merchants' = SetFlags(vReq[r].email, allFlags)
        /\ vReq' = [vReq EXCEPT ![r].pc = "delete",
                                ![r].merchant = merchants'[vReq[r].email]]
        /\ UNCHANGED <<otps, sessions, failedChecks>>

\* redisClient.del of the session, then the token is signed from the row read
VfDelete(r) ==
    /\ vReq[r].op = "verifyOtp" /\ vReq[r].pc = "delete"
    /\ sessions' = DeleteSession(sessions, vReq[r].sess)
    /\ vReq' = [vReq EXCEPT ![r] =
          [VfEnd(r, 200) EXCEPT !.token = TokenFor(vReq[r].merchant)]]
    /\ UNCHANGED <<merchants, otps, failedChecks>>

VfPartialSave(r) ==
    LET q == vReq[r]
        ttl == q.session.expiresAt - now
    IN  /\ q.op = "verifyOtp" /\ q.pc = "partial-save"
        /\ sessions' = IF SetExOk(ttl)
                       THEN StoreSession(sessions, q.sess, q.session, ttl)
                       ELSE sessions
        /\ vReq' = [vReq EXCEPT ![r] =
              IF SetExOk(ttl) THEN [q EXCEPT !.pc = "partial-update"]
              ELSE VfEnd(r, 500)]
        /\ UNCHANGED <<merchants, otps, failedChecks>>

VerifiedFlag(otpType) == IF otpType = "email" THEN "isEmailVerified" ELSE "isMobileVerified"

VfPartialUpdate(r) ==
    /\ vReq[r].op = "verifyOtp" /\ vReq[r].pc = "partial-update"
    /\ merchants' = SetFlags(vReq[r].email, {VerifiedFlag(vReq[r].otpType)})
    /\ vReq' = [vReq EXCEPT ![r] = [VfEnd(r, 200) EXCEPT !.requiresOtp = TRUE]]
    /\ UNCHANGED <<otps, sessions, failedChecks>>

VfLegacyUpdate(r) ==
    LET q == vReq[r]
    IN  /\ q.op = "verifyOtp" /\ q.pc = "legacy-update"
        /\ merchants' = SetFlags(q.email,
                            {VerifiedFlag(q.otpType)}
                            \cup (IF q.activates THEN {"isActive", "is2faActive"} ELSE {}))
        /\ vReq' = [vReq EXCEPT ![r] =
              IF q.activates
              THEN [VfEnd(r, 200) EXCEPT !.token = TokenFor(merchants'[q.email])]
              ELSE [VfEnd(r, 200) EXCEPT !.requiresOtp = TRUE]]
        /\ UNCHANGED <<otps, sessions, failedChecks>>

\* verifyPasswordReset: the password rule, then the account is read
VrStart(r, email, otp, newPassword) ==
    LET req == [NoVerify EXCEPT !.op = "verifyPasswordReset", !.email = email,
                                !.otp = otp, !.otpType = "sms",
                                !.newPassword = newPassword]
    IN  /\ VfFree(r)
        /\ vReq' = [vReq EXCEPT ![r] =
              IF PasswordLength(newPassword) < MinPasswordLength
              THEN [NoVerify EXCEPT !.pc = "done", !.status = 400]
              ELSE IF email \notin Registered
              THEN [NoVerify EXCEPT !.pc = "done", !.status = 404]
              ELSE [req EXCEPT !.pc = "find"]]
        /\ UNCHANGED <<merchants, otps, sessions, failedChecks>>

VrFind(r) ==
    LET q == vReq[r]
        rows == ResetMatches(q.email, q.otp)
    IN  /\ q.op = "verifyPasswordReset" /\ q.pc = "find"
        /\ vReq' = [vReq EXCEPT ![r] =
              IF rows = {} THEN VfEnd(r, 401)
              ELSE [q EXCEPT !.pc = "mark", !.row = MostRecent(rows)]]
        /\ UNCHANGED <<merchants, otps, sessions, failedChecks>>

VrMark(r) ==
    /\ vReq[r].op = "verifyPasswordReset" /\ vReq[r].pc = "mark"
    /\ otps' = MarkUsed(vReq[r].row)
    /\ vReq' = [vReq EXCEPT ![r].pc = "update"]
    /\ UNCHANGED <<merchants, sessions, failedChecks>>

VrUpdate(r) ==
    /\ vReq[r].op = "verifyPasswordReset" /\ vReq[r].pc = "update"
    /\ merchants' = [merchants EXCEPT
                        ![vReq[r].email].password = hashPassword(vReq[r].newPassword)]
    /\ vReq' = [vReq EXCEPT ![r] = VfEnd(r, 200)]
    /\ UNCHANGED <<otps, sessions, failedChecks>>

VfRest == UNCHANGED <<now, nextToken, resp, tokenVars, rateVars, auditVars, maskVars,
                      signUpVars, multiVars, pureVars>>

VerifyArrives ==
    /\ \E r \in VfRequests, t \in {NoSession} \cup DOMAIN failedChecks,
          e \in Emails, o \in OtpValues, ty \in OtpTypes :
            VfLoad(r, t, e, o, ty)
    /\ VfRest

VerifyFinds == (\E r \in VfRequests : VfFind(r)) /\ VfRest
VerifyBumps == (\E r \in VfRequests : VfBump(r)) /\ VfRest
VerifyMarks == (\E r \in VfRequests : VfMark(r)) /\ VfRest
VerifyReadsMerchant == (\E r \in VfRequests : VfMerchant(r)) /\ VfRest
VerifyReadsMfa == (\E r \in VfRequests : VfMfaRead(r)) /\ VfRest
VerifyActivates == (\E r \in VfRequests : VfActivate(r)) /\ VfRest
VerifyDeletes == (\E r \in VfRequests : VfDelete(r)) /\ VfRest
VerifySavesPartial == (\E r \in VfRequests : VfPartialSave(r)) /\ VfRest
VerifyUpdatesPartial == (\E r \in VfRequests : VfPartialUpdate(r)) /\ VfRest
VerifyUpdatesLegacy == (\E r \in VfRequests : VfLegacyUpdate(r)) /\ VfRest

ResetArrives ==
    /\ \E r \in VfRequests, e \in Emails, o \in OtpValues, p \in ResetPasswords :
          VrStart(r, e, o, p)
    /\ VfRest

ResetFinds == (\E r \in VfRequests : VrFind(r)) /\ VfRest
ResetMarks == (\E r \in VfRequests : VrMark(r)) /\ VfRest
ResetUpdates == (\E r \in VfRequests : VrUpdate(r)) /\ VfRest

\* signIn and requestPasswordReset, which issue the sessions and codes, run
\* while no verification is between two of its steps
VfQuiet == \A r \in VfRequests : vReq[r].pc \in {"idle", "done"}

\* here with the right password, both dispatches delivered, and codes that
\* differ between the channels
VerifySignIn ==
    /\ VfQuiet
    /\ \E e \in Emails : SignIn(e, "password1", "111111", "222222", TRUE, TRUE)
    /\ UNCHANGED <<tokenVars, rateVars, auditVars, maskVars, signUpVars, verifyVars, multiVars, pureVars>>

VerifyRequestReset ==
    /\ VfQuiet
    /\ \E e \in Emails, o \in OtpValues : RequestPasswordReset(e, o, TRUE)
    /\ UNCHANGED <<tokenVars, rateVars, auditVars, maskVars, signUpVars, verifyVars, multiVars, pureVars>>

InitVerify ==
    /\ now = 0
    /\ merchants \in InitialStores
    /\ otps = <<>> /\ sessions = <<>> /\ nextToken = 0
    /\ resp = NoResp /\ failedChecks = <<>>
    /\ vReq = [r \in VfRequests |-> NoVerify]
    /\ IdleToken /\ IdleRate /\ IdleAudit /\ IdleMask /\ IdleSignUp /\ IdleMulti /\ IdlePure

NextVerify ==
    \/ VerifySignIn
    \/ VerifyArrives \/ VerifyFinds \/ VerifyBumps \/ VerifyMarks
    \/ VerifyReadsMerchant \/ VerifyReadsMfa \/ VerifyActivates \/ VerifyDeletes
    \/ VerifySavesPartial \/ VerifyUpdatesPartial \/ VerifyUpdatesLegacy

SpecVerify == InitVerify /\ [][NextVerify]_vars

NextReset ==
    VerifyRequestReset \/ ResetArrives \/ ResetFinds \/ ResetMarks \/ ResetUpdates

SpecReset == InitVerify /\ [][NextReset]_vars

\* two requests that both answered 200 after consuming the same code row
SameCodeTwice(r1, r2) ==
    /\ r1 # r2
    /\ vReq[r1].pc = "done" /\ vReq[r1].status = 200
    /\ vReq[r2].pc = "done" /\ vReq[r2].status = 200
    /\ vReq[r1].row # 0 /\ vReq[r1].row = vReq[r2].row

\* C22: a code is consumed by at most one successful verification: of two
\* verifyOtp (or verifyPasswordReset) requests that present the same code and
\* interleave between the lookup of the unused code and the update that marks
\* it used, at most one succeeds.
C22_CodeConsumedOnce ==
    \A r1 \in VfRequests, r2 \in VfRequests : ~SameCodeTwice(r1, r2)

\* C23: the failed code checks one session admits never exceed 3, also when
\* verifyOtp requests on the same session token interleave between reading
\* the session and writing the incremented attempt counter back.
C23_AtMostThreeFailedChecks ==
    \A t \in DOMAIN failedChecks : failedChecks[t] <= MaxAttempts

\* two requests that verified the email code and the sms code of one
\* first-activation session, both answered 200
BothChannelsVerified(r1, r2) ==
    /\ vReq[r1].pc = "done" /\ vReq[r1].status = 200
    /\ vReq[r2].pc = "done" /\ vReq[r2].status = 200
    /\ vReq[r1].sess # NoSession /\ vReq[r1].sess = vReq[r2].sess
    /\ vReq[r1].otpType = "email" /\ vReq[r2].otpType = "sms"

\* C24: when the email code and the sms code of one first-activation session
\* are both verified successfully by two interleaved verifyOtp requests, one
\* of the two returns a signed token and the account ends active with mfa
\* enabled.
C24_InterleavedActivationCompletes ==
    \A r1 \in VfRequests, r2 \in VfRequests :
        BothChannelsVerified(r1, r2) =>
            /\ vReq[r1].token # NoToken \/ vReq[r2].token # NoToken
            /\ \A e \in Registered : merchants[e].isActive /\ merchants[e].is2faActive

\* an account that disableMerchantAccount switched off: inactive although it
\* completed activation (both channels verified, mfa enabled)
DisabledByAdmin(e) ==
    /\ ~merchants[e].isActive /\ merchants[e].is2faActive
    /\ merchants[e].isEmailVerified /\ merchants[e].isMobileVerified

\* C25: an account that disableMerchantAccount set inactive stays inactive
\* under every signIn, sendOtp and verifyOtp request; only
\* enableMerchantAccount makes it active again.
C25_DisabledStaysInactive ==
    [][ \A e \in Registered :
          DisabledByAdmin(e) /\ merchants'[e].isActive
              => resp'.op = "enableMerchantAccount"
      ]_vars

\* no request other than disableMerchantAccount produces an account that is
\* inactive with both channels verified and mfa enabled
InactiveVerifiedOnlyByAdmin ==
    [][ \A e \in DOMAIN merchants' :
          e \in Registered /\ ~DisabledByAdmin(e)
          /\ ~merchants'[e].isActive /\ merchants'[e].is2faActive
          /\ merchants'[e].isEmailVerified /\ merchants'[e].isMobileVerified
              => resp'.op = "disableMerchantAccount"
      ]_vars

FullyActive(e) ==
    /\ merchants[e].isActive /\ merchants[e].is2faActive
    /\ merchants[e].isEmailVerified /\ merchants[e].isMobileVerified

\* the channels of the codes a step marked used
ConsumedChannels ==
    {otps[i].otpType : i \in {j \in 1..Len(otps) : ~otps[j].isUsed /\ otps'[j].isUsed}}

\* C26: for an account that is active, fully verified and mfa-enabled, a
\* signed token is issued only by verifying an sms code in a routine-mfa
\* session, which only a signIn with the correct password creates; no
\* sequence without the password check, or with only an email code, yields a
\* token for the account.
C26_TokenOnlyThroughMfaSession ==
    [][ \A e \in Registered :
          /\ FullyActive(e)
          /\ resp'.token # NoToken /\ resp'.token.email = e
          => /\ resp'.op = "verifyOtp" /\ resp'.flow = "mfa-only"
             /\ ConsumedChannels = {"sms"}
      ]_vars

\* ---------------------------------------------------------------------------
\* Rate limiter: checkRateLimit over the four windows of one
\* (endpoint, client address), calls made one after another
\* ---------------------------------------------------------------------------

MaxWindowLimit == 2
MaxMultiTime == 3

\* the windows array of checkRateLimit, in its order
MwWindows ==
    <<[name |-> "second", seconds |-> 1], [name |-> "minute", seconds |-> 60],
      [name |-> "hour", seconds |-> 3600], [name |-> "day", seconds |-> 86400]>>

MwIndex == 1..Len(MwWindows)

MwConfigs == [MwIndex -> 1..MaxWindowLimit]

KeyCount(key) == IF key = NoKey THEN 0 ELSE key.value

KeyIncr(key) ==
    IF key = NoKey THEN [value |-> 1, ttlEnd |-> NoExpiry]
    ELSE [key EXCEPT !.value = @ + 1]

KeyTtl(key) ==
    IF key = NoKey THEN -2
    ELSE IF key.ttlEnd = NoExpiry THEN -1
    ELSE key.ttlEnd - now

MwIdle == [pc |-> "idle", count |-> 0, wrote |-> FALSE, result |-> NoResult]

\* Promise.all(windows.map(checkWindowLimit)): the four checks start together
MwStart ==
    /\ \A w \in MwIndex : mwCall[w].pc = "idle"
    /\ mwCall' = [w \in MwIndex |-> [MwIdle EXCEPT !.pc = "get"]]
    /\ UNCHANGED <<now, mwConf, mwCounter, mwResult>>

MwGet(w) ==
    LET count == KeyCount(mwCounter[w])
    IN  /\ mwCall[w].pc = "get"
        /\ mwCall' = [mwCall EXCEPT ![w].count = count,
                         ![w].pc = IF LimitExceeded(count, mwConf[w])
                                   THEN "ttl-denied" ELSE "write"]
        /\ UNCHANGED <<now, mwConf, mwCounter, mwResult>>

MwWrite(w) ==
    /\ mwCall[w].pc = "write"
    /\ mwCounter' = [mwCounter EXCEPT ![w] =
                        IF mwCall[w].count = 0
                        THEN [value |-> 1, ttlEnd |-> now + MwWindows[w].seconds]
                        ELSE KeyIncr(@)]
    /\ mwCall' = [mwCall EXCEPT ![w].pc = "ttl-allowed", ![w].wrote = TRUE]
    /\ UNCHANGED <<now, mwConf, mwResult>>

MwTtl(w) ==
    LET ttl == KeyTtl(mwCounter[w])
        allowed == mwCall[w].pc = "ttl-allowed"
    IN  /\ mwCall[w].pc \in {"ttl-denied", "ttl-allowed"}
        /\ mwCall' = [mwCall EXCEPT ![w].pc = "done", ![w].result =
              [allowed |-> allowed,
               remaining |-> IF allowed THEN mwConf[w] - mwCall[w].count - 1 ELSE 0,
               resetTime |-> now + (IF ttl > 0 THEN ttl ELSE MwWindows[w].seconds),
               limit |-> mwConf[w], window |-> MwWindows[w].name]]
        /\ UNCHANGED <<now, mwConf, mwCounter, mwResult>>

\* results.find((r) => !r.allowed)
FirstExceeded(results) ==
    LET denied == {w \in MwIndex : ~results[w].allowed}
    IN  IF denied = {} THEN NoResult
        ELSE results[CHOOSE w \in denied : \A x \in denied : w <= x]

\* results.reduce((prev, curr) => curr.remaining < prev.remaining ? curr : prev)
RECURSIVE MostRestrictive(_, _)
MostRestrictive(results, n) ==
    IF n = 1 THEN results[1]
    ELSE LET prev == MostRestrictive(results, n - 1)
         IN  IF results[n].remaining < prev.remaining THEN results[n] ELSE prev

\* wrote: the windows whose counter this call incremented
MwReturn ==
    LET results == [w \in MwIndex |-> mwCall[w].result]
        exceeded == FirstExceeded(results)
    IN  /\ \A w \in MwIndex : mwCall[w].pc = "done"
        /\ mwResult' = [result |-> IF exceeded # NoResult THEN exceeded
                                   ELSE MostRestrictive(results, Len(MwWindows)),
                        wrote |-> {w \in MwIndex : mwCall[w].wrote}]
        /\ mwCall' = [w \in MwIndex |-> MwIdle]
        /\ UNCHANGED <<now, mwConf, mwCounter>>

\* a second passes between two calls; a counter whose TTL has elapsed disappears
MwTick ==
    /\ \A w \in MwIndex : mwCall[w].pc = "idle"
    /\ now < MaxMultiTime
    /\ now' = now + 1
    /\ mwCounter' = [w \in MwIndex |->
          IF /\ mwCounter[w] # NoKey /\ mwCounter[w].ttlEnd # NoExpiry
             /\ mwCounter[w].ttlEnd <= now + 1
          THEN NoKey ELSE mwCounter[w]]
    /\ UNCHANGED <<mwConf, mwCall, mwResult>>

MwRest == UNCHANGED <<authVars, tokenVars, rateVars, auditVars, maskVars, signUpVars,
                      verifyVars, pureVars>>

MultiStart == MwStart /\ MwRest
MultiGet == (\E w \in MwIndex : MwGet(w)) /\ MwRest
MultiWrite == (\E w \in MwIndex : MwWrite(w)) /\ MwRest
MultiTtl == (\E w \in MwIndex : MwTtl(w)) /\ MwRest
MultiReturn == MwReturn /\ MwRest
MultiTick == MwTick /\ MwRest

InitMulti ==
    /\ now = 0
    /\ mwConf \in MwConfigs
    /\ mwCounter = [w \in MwIndex |-> NoKey]
    /\ mwCall = [w \in MwIndex |-> MwIdle]
    /\ mwResult = NoResult
    /\ IdleAuth /\ IdleToken /\ IdleRate /\ IdleAudit /\ IdleMask /\ IdleSignUp /\ IdlePure
    /\ IdleVerify

NextMulti ==
    MultiStart \/ MultiGet \/ MultiWrite \/ MultiTtl \/ MultiReturn \/ MultiTick

SpecMulti == InitMulti /\ [][NextMulti]_vars

\* C27: a request that checkRateLimit denies because one window is at its
\* limit has incremented the counter of no window: a denied request consumes
\* no quota in the minute, hour or day windows.
C27_DeniedConsumesNoQuota ==
    mwResult # NoResult /\ ~mwResult.result.allowed => mwResult.wrote = {}

\* C28: no session is readable more than 10 minutes after the signIn that
\* created it: a session appears only through signIn, with an expiry 10
\* minutes ahead; no later step (a failed attempt, a partial verification)
\* moves the end of its TTL or its absolute expiry to a later time; and a
\* verifyOtp naming a missing or expired session fails as Unauthorized and
\* changes neither the accounts nor the codes.
C28_SessionBoundedByTenMinutes ==
    [][ /\ \A t \in DOMAIN sessions' :
            IF t \in DOMAIN sessions
            THEN /\ sessions'[t].ttlEnd <= sessions[t].ttlEnd
                 /\ sessions'[t].expiresAt = sessions[t].expiresAt
            ELSE /\ resp'.op = "signIn"
                 /\ sessions'[t].ttlEnd = now + SessionLifetime
                 /\ sessions'[t].expiresAt = now + SessionLifetime
        /\ \A t \in DOMAIN sessions : SessionVisible(t) => now <= sessions[t].expiresAt
        /\ resp'.op = "verifyOtp" =>
             \A t \in DOMAIN failedChecks, o \in OtpValues, ty \in OtpTypes :
                 /\ ~SessionVisible(t) \/ now > sessions[t].expiresAt
                 /\ VerifyOtp(t, "", o, ty)
                 => /\ resp'.status = 401 /\ resp'.token = NoToken
                    /\ merchants' = merchants /\ otps' = otps
                    /\ t \notin DOMAIN sessions'
      ]_vars

\* a session was written back after two failed attempts, 400 seconds after
\* it was created, still ending at its original expiry
C28_Witness ==
    /\ resp.op = "verifyOtp" /\ resp.status = 401
    /\ now >= 400
    /\ \E t \in DOMAIN sessions :
          /\ sessions[t].attempts = 2
          /\ sessions[t].ttlEnd = sessions[t].expiresAt
          /\ sessions[t].expiresAt = SessionLifetime

\* C29: once verifyOtp has returned a signed token for a session, the
\* session is gone from the cache; a session token that is gone never comes
\* back; and every verifyOtp naming it fails as Unauthorized without a token,
\* so requests made one after another obtain at most one token per session.
C29_SessionGoneAfterToken ==
    [][ /\ resp'.op = "verifyOtp" =>
             \A t \in DOMAIN failedChecks, o \in OtpValues, ty \in OtpTypes :
                 VerifyOtp(t, "", o, ty) =>
                     /\ resp'.token # NoToken => t \notin DOMAIN sessions'
                     /\ t \notin DOMAIN sessions =>
                           resp'.status = 401 /\ resp'.token = NoToken
        /\ \A t \in DOMAIN failedChecks :
              t \notin DOMAIN sessions => t \notin DOMAIN sessions'
      ]_vars

\* a session's code was verified without any failed check, the session is
\* gone, and a later verifyOtp was refused
C29_Witness ==
    /\ resp.op = "verifyOtp" /\ resp.status = 401
    /\ sessions = <<>>
    /\ 1 \in DOMAIN failedChecks /\ failedChecks[1] = 0
    /\ \E e \in Registered : merchants[e].isActive
    /\ \E i \in 1..Len(otps) : otps[i].isUsed

\* a verifyOtp step that names a readable routine-mfa session and the email
\* channel leaves the sessions, the codes and the accounts as they were and
\* issues no token
EmailOnMfaUnchanged ==
    /\ resp'.status >= 400 /\ resp'.token = NoToken
    /\ sessions' = sessions /\ otps' = otps /\ merchants' = merchants

SendOtpTypes == {"email", "mobile", "sms"}
SendOtpSteps == {30, 600}

\* where a code of this type is delivered: the email address or the phone
DeliveryChannel(otpType) == IF otpType = "email" THEN "email" ELSE "phone"

SendOtpRequest ==
    /\ \E e \in Emails, ty \in SendOtpTypes, sent \in BOOLEAN :
          SendOtp(e, ty, "111111", sent)
    /\ UNCHANGED <<tokenVars, rateVars, auditVars, maskVars, signUpVars, verifyVars,
                   multiVars, pureVars>>

SendOtpTick ==
    /\ \E d \in SendOtpSteps : Advance(d)
    /\ UNCHANGED <<tokenVars, rateVars, auditVars, maskVars, signUpVars, verifyVars,
                   multiVars, pureVars>>

NextSendOtp == SendOtpRequest \/ SendOtpTick

SpecSendOtp == InitAuth /\ [][NextSendOtp]_vars

\* the previous request was a successful sendOtp, and its code is the last row
LastSendSucceeded == resp.op = "sendOtp" /\ resp.status = 200 /\ Len(otps) > 0

\* C31: between two successful stand-alone sendOtp calls for the same email
\* and the same delivery channel (the email address or the phone) at least 60
\* seconds elapse, unless the earlier code was used or expired in between; a
\* call inside the cool-down answers 400, creates no code and dispatches
\* nothing.
C31_SixtySecondsBetweenCodes ==
    [][ resp'.op = "sendOtp" /\ otps' # otps /\ LastSendSucceeded =>
          LET earlier == otps[Len(otps)]
              later == otps'[Len(otps')]
          IN  /\ resp'.status = 200
              /\ later.email = earlier.email
              /\ DeliveryChannel(later.otpType) = DeliveryChannel(earlier.otpType)
              /\ ~earlier.isUsed /\ earlier.expiresAt > now
              => now - earlier.createdAt >= OtpCooldown
      ]_vars

\* ---------------------------------------------------------------------------
\* The audit pipeline under fair scheduling: a scheduled callback runs, a
\* pending createMany settles and a pending scan settles
\* ---------------------------------------------------------------------------

SpecAuditLive ==
    /\ InitAudit /\ [][NextAudit]_vars
    /\ WF_vars(AuditRun)
    /\ WF_vars(AuditWritten \/ AuditWriteFailed)
    /\ WF_vars(AuditScanned \/ AuditScanFailed)

\* C32: every audit entry pushed onto the queue is eventually taken off it by
\* a flush cycle, also an entry that arrived while a flush was in progress
\* and so scheduled no callback of its own.
C32_QueuedEntryEventuallyDequeued ==
    \A id \in 1..MaxEntries :
        (id \in Range(auditLogQueue)) ~> (id \notin Range(auditLogQueue))

\* a later flush cycle is writing entries that arrived during an earlier one,
\* while a further entry waits in the queue with no callback scheduled
C32_Witness ==
    /\ queueProcessing
    /\ auditTimers = 0
    /\ Len(auditLogQueue) > 0
    /\ \E c \in auditFlush : c.batch[1] > 1

\* ---------------------------------------------------------------------------
\* Client address resolution: extractIpAddress as the audit middleware and
\* the rate limiter call it.  A string is modelled as the list of its
\* comma-separated segments; a header value is undefined, a string or an
\* array of strings.
\* ---------------------------------------------------------------------------

Undefined == [kind |-> "absent"]
Str(parts) == [kind |-> "string", parts |-> parts]
Arr(items) == [kind |-> "array", items |-> items]

\* JavaScript truthiness of a header value: undefined and '' are falsy
Truthy(v) == v.kind = "array" \/ (v.kind = "string" /\ v.parts # <<"">>)

\* Array.isArray(v) ? v[0] : v
FirstValue(v) == IF v.kind = "array" THEN v.items[1] ELSE v.parts

\* String.prototype.trim on one segment
Trim(seg) ==
    CASE seg = " " -> ""
      [] seg = " a1" -> "a1"
      [] OTHER -> seg

\* remoteAddress.replace(/^::ffff:/, '')
StripV4Mapped(str) == IF str = <<"::ffff:a4">> THEN <<"a4">> ELSE str

Unknown == <<"unknown">>

extractIpAddress(headers, socket) ==
    LET forwardedFor == headers.forwardedFor
        realIp == headers.realIp
        cfConnectingIp == headers.cfConnectingIp
        ffIp == <<Trim(FirstValue(forwardedFor)[1])>>
    IN  IF Truthy(forwardedFor) /\ ffIp # <<"">> THEN ffIp
        ELSE IF Truthy(realIp) /\ FirstValue(realIp) # <<"">> THEN FirstValue(realIp)
        ELSE IF Truthy(cfConnectingIp) /\ FirstValue(cfConnectingIp) # <<"">>
             THEN FirstValue(cfConnectingIp)
        ELSE IF /\ socket.kind # "absent"
                /\ Truthy(socket.remoteAddress)
                /\ StripV4Mapped(socket.remoteAddress.parts) # <<"">>
             THEN StripV4Mapped(socket.remoteAddress.parts)
        ELSE Unknown

\* const ipAddress = extractIpAddress(request.headers) in the audit hook
AuditIpAddress(req) == extractIpAddress(req.headers, Undefined)

\* const ipAddress = extractIpAddress(request.headers, request.socket) in
\* the rate limiter
RateLimitIpAddress(req) == extractIpAddress(req.headers, req.socket)

ForwardedForValues ==
    {Undefined, Str(<<"">>), Str(<<"a1">>), Str(<<" a1", "a2">>), Str(<<" ", "a2">>),
     Arr(<< <<"a1">> >>)}
RealIpValues == {Undefined, Str(<<"">>), Str(<<"a2">>), Arr(<< <<"a2">> >>)}
ConnectingIpValues == {Undefined, Str(<<"">>), Str(<<"a3">>)}
RemoteAddresses == {Undefined, Str(<<"">>), Str(<<"a4">>), Str(<<"::ffff:a4">>)}

IpRequests ==
    [headers : [forwardedFor : ForwardedForValues, realIp : RealIpValues,
                cfConnectingIp : ConnectingIpValues],
     socket : {[kind |-> "socket", remoteAddress |-> a] : a \in RemoteAddresses}]

InitIp ==
    /\ now = 0
    /\ ipReq \in IpRequests
    /\ ipSeen = <<>>
    /\ IdleConf /\ IdleScan
    /\ IdleAuth /\ IdleToken /\ IdleRate /\ IdleAudit /\ IdleMask /\ IdleSignUp
    /\ IdleVerify /\ IdleMulti

\* the request passes the rate limiter and, on its response, the audit hook
ResolveAddresses ==
    /\ ipSeen = <<>>
    /\ ipSeen' = [rateLimit |-> RateLimitIpAddress(ipReq), audit |-> AuditIpAddress(ipReq)]
    /\ UNCHANGED <<now, authVars, tokenVars, rateVars, auditVars, maskVars, signUpVars,
                   verifyVars, multiVars, ipReq, rcCall, rcResult, scBatch, scSignals>>

NextIp == ResolveAddresses

SpecIp == InitIp /\ [][NextIp]_vars

\* C33: for every request, the client address recorded in its audit entry
\* equals the address the rate limiter resolved for the same request, for
\* every combination of forwarded-for, real-IP and connecting-IP headers and
\* socket address.
C33_AuditAddressIsRateLimitAddress ==
    ipSeen # <<>> => ipSeen.audit = ipSeen.rateLimit

\* ---------------------------------------------------------------------------
\* The sliding session: a client presents its token every minute and keeps
\* the replacement it is given
\* ---------------------------------------------------------------------------

RefreshSteps == {60}

InitRefresh ==
    /\ now = 0
    /\ IdleAuth
    /\ jwtExpiresIn = DefaultExpiresIn
    /\ issued = NoToken
    /\ \E payload \in TokenPayloads : held = {generateToken(payload)}
    /\ IdleRate /\ IdleAudit /\ IdleMask /\ IdleSignUp /\ IdleVerify /\ IdleMulti
    /\ IdlePure

RefreshTick ==
    /\ \E d \in RefreshSteps : Advance(d)
    /\ UNCHANGED <<tokenVars, rateVars, auditVars, maskVars, signUpVars, verifyVars,
                   multiVars, pureVars>>

NextRefresh == DoAuthenticate \/ KeepToken \/ RefreshTick

SpecRefresh == InitRefresh /\ [][NextRefresh]_vars

SamePayload(a, b) ==
    /\ a.userId = b.userId /\ a.merchantId = b.merchantId /\ a.role = b.role
    /\ a.email = b.email /\ a.kycVerified = b.kycVerified /\ a.isActive = b.isActive

\* C34: an authenticated request with a valid token receives a replacement
\* token if and only if fewer than 120 seconds remain before the token's
\* expiry, and the replacement carries the same user id, merchant id, role,
\* email and flags as the presented token.
C34_RefreshedIffWithinTwoMinutes ==
    [][ \A tok \in held :
          Authenticate(tok) /\ resp'.status = 200 =>
             /\ (resp'.token # NoToken) <=> (tok.exp - now < RefreshMargin)
             /\ resp'.token # NoToken =>
                   /\ SamePayload(resp'.token, tok)
                   /\ resp'.token.exp > tok.exp
      ]_vars

\* a KYC-verified client's token was replaced within its last two minutes
C34_Witness ==
    /\ resp.op = "authenticate" /\ resp.status = 200
    /\ resp.token # NoToken
    /\ resp.token.kycVerified
    /\ \E tok \in held : tok.exp - now < RefreshMargin /\ SamePayload(resp.token, tok)

\* C35: a stand-alone sendOtp whose dispatch failed, by email or by sms, is
\* answered with 503 ServiceUnavailable and not with a generic 500.
C35_SendFailureIsUnavailable ==
    (resp.op = "sendOtp" /\ resp.failed # {}) => resp.status = 503

\* the positions of the candidates that no account uses yet
FreeDraws(draws) == {i \in 1..MaxIdAttempts : draws[i] \notin UsedIds}

LeastOf(S) == CHOOSE x \in S : \A y \in S : x <= y

\* C36: the public-ID allocation of signUp ends after at most 10 candidate
\* draws whatever the collisions: it goes on with the first candidate that is
\* not yet used, the account that is then stored carries that candidate, and
\* when all 10 candidates collide the signUp fails and no account is created.
C36_IdAllocationBounded ==
    [][ /\ \A r \in SuRequests, draws \in DrawSeqs :
             SuAllocate(r, draws) =>
                /\ suReq'[r].attempts <= MaxIdAttempts
                /\ merchants' = merchants
                /\ IF FreeDraws(draws) = {}
                   THEN /\ suReq'[r].pc = "done" /\ suReq'[r].status = 500
                        /\ suReq'[r].attempts = MaxIdAttempts
                   ELSE /\ suReq'[r].pc = "create"
                        /\ suReq'[r].id = draws[LeastOf(FreeDraws(draws))]
                        /\ suReq'[r].attempts = LeastOf(FreeDraws(draws))
        /\ \A r \in SuRequests :
             SuCreate(r) /\ suReq'[r].status = 201 =>
                /\ suReq[r].email \in DOMAIN merchants'
                /\ merchants'[suReq[r].email].nineteenMerchantId = suReq[r].id
      ]_vars

\* a signUp whose 10 candidates all collided has failed, and another signUp
\* drew a used candidate first and stored its account with the second
C36_Witness ==
    /\ \E r \in SuRequests :
          /\ suReq[r].pc = "done" /\ suReq[r].status = 500
          /\ suReq[r].attempts = MaxIdAttempts
    /\ \E r \in SuRequests :
          /\ suReq[r].pc = "done" /\ suReq[r].status = 201 /\ suReq[r].attempts = 2
          /\ merchants[suReq[r].email].nineteenMerchantId = suReq[r].id

\* ---------------------------------------------------------------------------
\* Endpoint configuration lookup: getRateLimitConfig over configuration
\* tables.  A path is a sequence of characters; a table lists its keys in
\* insertion order, as Object.entries walks them.
\* ---------------------------------------------------------------------------

MaxKeyLen == 2
MaxPathLen == 3
MaxTableLen == 2
PathChars == {"a", "b"}

PathsUpTo(n) == UNION {[1..k -> PathChars] : k \in 0..n}
ConfigKeys == PathsUpTo(MaxKeyLen) \ {<<>>}

\* the tables: distinct keys, the i-th entry configured with perMinute = i
ConfigTables ==
    {t \in UNION {[1..k -> [key : ConfigKeys, config : [perMinute : 1..MaxTableLen]]] :
                     k \in 0..MaxTableLen} :
        /\ \A i, j \in DOMAIN t : i # j => t[i].key # t[j].key
        /\ \A i \in DOMAIN t : t[i].config.perMinute = i}

\* endpoint.startsWith(key)
StartsWith(endpoint, key) ==
    /\ Len(key) <= Len(endpoint)
    /\ SubSeq(endpoint, 1, Len(key)) = key

NoConfig == [null |-> TRUE]

getRateLimitConfig(table, endpoint) ==
    LET exact == {i \in DOMAIN table : table[i].key = endpoint}
        prefixes == {i \in DOMAIN table : StartsWith(endpoint, table[i].key)}
    IN  IF exact # {} THEN table[LeastOf(exact)].config
        ELSE IF prefixes # {} THEN table[LeastOf(prefixes)].config
        ELSE NoConfig

InitConf ==
    /\ now = 0
    /\ rcCall \in [table : ConfigTables, endpoint : PathsUpTo(MaxPathLen)]
    /\ rcResult = <<>>
    /\ IdleIp /\ IdleScan
    /\ IdleAuth /\ IdleToken /\ IdleRate /\ IdleAudit /\ IdleMask /\ IdleSignUp
    /\ IdleVerify /\ IdleMulti

GetRateLimitConfig ==
    /\ rcResult = <<>>
    /\ rcResult' = getRateLimitConfig(rcCall.table, rcCall.endpoint)
    /\ UNCHANGED <<now, authVars, tokenVars, rateVars, auditVars, maskVars, signUpVars,
                   verifyVars, multiVars, ipReq, ipSeen, rcCall, scBatch, scSignals>>

NextConf == GetRateLimitConfig

SpecConf == InitConf /\ [][NextConf]_vars

\* the entries whose key is a prefix of the endpoint and no shorter than any
\* other such key
LongestPrefixes(table, endpoint) ==
    {i \in DOMAIN table :
        /\ StartsWith(endpoint, table[i].key)
        /\ \A j \in DOMAIN table :
              StartsWith(endpoint, table[j].key) => Len(table[j].key) <= Len(table[i].key)}

\* C37: getRateLimitConfig returns the configuration stored under the exact
\* path when there is one, otherwise the configuration of the longest
\* configured key that is a prefix of the path, and null when no configured
\* key is a prefix, for every table, also one in which a key is a prefix of
\* another.
C37_LongestPrefixWins ==
    rcResult # <<>> =>
        LET table == rcCall.table
            endpoint == rcCall.endpoint
        IN  IF \E i \in DOMAIN table : table[i].key = endpoint
            THEN \E i \in DOMAIN table : table[i].key = endpoint /\ rcResult = table[i].config
            ELSE IF LongestPrefixes(table, endpoint) # {}
            THEN \E i \in LongestPrefixes(table, endpoint) : rcResult = table[i].config
            ELSE rcResult = NoConfig

\* ---------------------------------------------------------------------------
\* The suspicious-activity scan of a flushed batch: checkSuspiciousActivities
\* and the two AuditAlertHelper checks.  A batch is the bag of its entries,
\* an entry being its client address, action type and response status.
\* ---------------------------------------------------------------------------

ScanIps == {"ip1", "ip2"}
EntryKinds == [ip : ScanIps, actionType : {"signin", "verify_otp"}, status : {401, 429}]

\* how many entries of each kind an address has in a batch: around the
\* thresholds
AddressCounts ==
    [signIn401 : {0, 4, 5, 9, 10}, signIn429 : {0, 1},
     verify401 : {0, 5}, verify429 : {0, 19, 20, 49, 50}]

CountOf(c, k) ==
    CASE k.actionType = "signin" /\ k.status = 401 -> c.signIn401
      [] k.actionType = "signin" /\ k.status = 429 -> c.signIn429
      [] k.actionType = "verify_otp" /\ k.status = 401 -> c.verify401
      [] OTHER -> c.verify429

RECURSIVE SumCounts(_, _)
SumCounts(batch, kinds) ==
    IF kinds = {} THEN 0
    ELSE LET k == CHOOSE x \in kinds : TRUE
         IN  batch[k] + SumCounts(batch, kinds \ {k})

\* a flush takes at most BatchSize entries off the queue
ScanBatches ==
    {b \in {[k \in EntryKinds |-> CountOf(c[k.ip], k)] : c \in [ScanIps -> AddressCounts]} :
        SumCounts(b, EntryKinds) <= BatchSize}

\* ipLogs.filter(actionType === 'signin' && responseStatus === 401).length
FailedLogins(batch, ip) ==
    SumCounts(batch, {k \in EntryKinds :
                         k.ip = ip /\ k.actionType = "signin" /\ k.status = 401})

\* ipLogs.filter(responseStatus === 429).length
RateLimitViolations(batch, ip) ==
    SumCounts(batch, {k \in EntryKinds : k.ip = ip /\ k.status = 429})

checkFailedLoginAttempts_Strict(ipAddress, failedAttempts) ==
    IF failedAttempts > 10
    THEN {[activityType |-> "multiple_failed_logins", ipAddress |-> ipAddress,
           severity |-> "critical"]}
    ELSE IF failedAttempts > 5
    THEN {[activityType |-> "multiple_failed_logins", ipAddress |-> ipAddress,
           severity |-> "high"]}
    ELSE {}

\* the activity the check returns, {} for null
checkFailedLoginAttempts(ipAddress, failedAttempts) ==
    IF failedAttempts >= 10
    THEN {[activityType |-> "multiple_failed_logins", ipAddress |-> ipAddress,
           severity |-> "critical"]}
    ELSE IF failedAttempts >= 5
    THEN {[activityType |-> "multiple_failed_logins", ipAddress |-> ipAddress,
           severity |-> "high"]}
    ELSE {}

checkRateLimitAbuse(ipAddress, violations) ==
    IF violations >= 50
    THEN {[activityType |-> "rate_limit_abuse", ipAddress |-> ipAddress,
           severity |-> "critical"]}
    ELSE IF violations >= 20
    THEN {[activityType |-> "rate_limit_abuse", ipAddress |-> ipAddress,
           severity |-> "high"]}
    ELSE {}

\* the activities handed to logSuspiciousActivity for a batch
checkSuspiciousActivities(batch) ==
    UNION {
        (IF FailedLogins(batch, ip) >= 5
         THEN checkFailedLoginAttempts(ip, FailedLogins(batch, ip)) ELSE {})
        \cup
        (IF RateLimitViolations(batch, ip) >= 20
         THEN checkRateLimitAbuse(ip, RateLimitViolations(batch, ip)) ELSE {})
      : ip \in {k.ip : k \in {x \in EntryKinds : batch[x] > 0}} }

InitScan ==
    /\ now = 0
    /\ scBatch \in ScanBatches
    /\ scSignals = <<>>
    /\ IdleIp /\ IdleConf
    /\ IdleAuth /\ IdleToken /\ IdleRate /\ IdleAudit /\ IdleMask /\ IdleSignUp
    /\ IdleVerify /\ IdleMulti

ScanBatch ==
    /\ scSignals = <<>>
    /\ scSignals' = [raised |-> checkSuspiciousActivities(scBatch)]
    /\ UNCHANGED <<now, authVars, tokenVars, rateVars, auditVars, maskVars, signUpVars,
                   verifyVars, multiVars, ipReq, ipSeen, rcCall, rcResult, scBatch>>

NextScan == ScanBatch

SpecScan == InitScan /\ [][NextScan]_vars

\* the severities raised for an address and an activity type
Raised(ip, activityType) ==
    {a.severity : a \in {x \in scSignals.raised :
                            x.ipAddress = ip /\ x.activityType = activityType}}

\* the number of entries of the batch that satisfy a condition, counted entry
\* kind by entry kind
SignIn401s(ip) ==
    scBatch[[ip |-> ip, actionType |-> "signin", status |-> 401]]
Status429s(ip) ==
    scBatch[[ip |-> ip, actionType |-> "signin", status |-> 429]]
       + scBatch[[ip |-> ip, actionType |-> "verify_otp", status |-> 429]]

\* C38: the scan of a flushed batch raises, per client address, a High signal
\* for 5 to 9 sign-in requests answered 401 and a Critical one for 10 or more,
\* a High signal for 20 to 49 responses with status 429 and a Critical one for
\* 50 or more, and no signal below 5 and below 20.
C38_ScanThresholds ==
    scSignals # <<>> =>
        \A ip \in ScanIps :
            /\ Raised(ip, "multiple_failed_logins") =
                  IF SignIn401s(ip) >= 10 THEN {"critical"}
                  ELSE IF SignIn401s(ip) >= 5 THEN {"high"}
                  ELSE {}
            /\ Raised(ip, "rate_limit_abuse") =
                  IF Status429s(ip) >= 50 THEN {"critical"}
                  ELSE IF Status429s(ip) >= 20 THEN {"high"}
                  ELSE {}

\* one address has exactly 5 failed sign-ins in the batch and got High, the
\* other has 50 responses 429 and got Critical
C38_Witness ==
    /\ scSignals # <<>>
    /\ SignIn401s("ip1") = 5
    /\ Raised("ip1", "multiple_failed_logins") = {"high"}
    /\ Status429s("ip2") = 50
    /\ Raised("ip2", "rate_limit_abuse") = {"critical"}

\* ---------------------------------------------------------------------------
\* Logout: the authenticate hook, then authController.logout and
\* authService.logout
\* ---------------------------------------------------------------------------

Logout_DropsSessions(tok) ==
    /\ resp' = [NoResp EXCEPT !.op = "logout", !.status = 200]
    /\ sessions' = <<>>
    /\ UNCHANGED <<now, merchants, otps, nextToken, failedChecks>>

\* the request is answered 401 by the hook for a rejected token and by the
\* service when no account has the token's email and id; otherwise 200, with
\* the X-New-Token header of the hook when the token was due for refresh
Logout(tok) ==
    LET outcome == authenticate(tok)
        known == tok.email \in Registered /\ merchants[tok.email].email = tok.userId
        status == IF outcome \in {"invalid-token", "inactive"} THEN 401
                  ELSE IF ~known THEN 401
                  ELSE 200
    IN  /\ resp' = [NoResp EXCEPT
                      !.op = "logout",
                      !.status = status,
                      !.message =
                         CASE outcome = "invalid-token" -> "Invalid or expired token"
                           [] outcome = "inactive" -> "Merchant account is inactive"
                           [] ~known -> "Invalid user session"
                           [] OTHER -> "Logged out successfully",
                      !.token = IF outcome = "refreshed"
                                THEN generateToken(RefreshPayload(tok))
                                ELSE NoToken]
        /\ UNCHANGED <<now, merchants, otps, sessions, nextToken, failedChecks>>

DoLogout ==
    /\ \E tok \in held : Logout(tok)
    /\ UNCHANGED <<tokenVars, rateVars, auditVars, maskVars, signUpVars, verifyVars,
                   multiVars, pureVars>>

NextLogout ==
    \/ DoSignIn \/ DoVerifyOtp \/ KeepToken \/ DoAuthenticate \/ DoLogout
    \/ SessionTick

\* the store as at service start; the client of an active account may hold a
\* token from an earlier sign-in
InitLogout ==
    /\ now = 0
    /\ merchants \in InitialStores
    /\ otps = <<>> /\ sessions = <<>> /\ nextToken = 0
    /\ resp = NoResp /\ failedChecks = <<>>
    /\ jwtExpiresIn = DefaultExpiresIn /\ issued = NoToken
    /\ held \in {{}} \cup {{TokenFor(merchants[e])} : e \in {x \in Registered : merchants[x].isActive}}
    /\ IdleRate /\ IdleAudit /\ IdleMask /\ IdleSignUp /\ IdleVerify /\ IdleMulti
    /\ IdlePure

SpecLogout == InitLogout /\ [][NextLogout]_vars

\* C39: logout changes no state: accounts, one-time codes, MFA sessions and
\* rate-limit counters are the same after it as before, and the token
\* presented at logout is accepted by an authenticated request made after it,
\* as is every held token that is active and not yet expired.
C39_LogoutChangesNothing ==
    [][ /\ resp'.op = "logout" =>
             \A tok \in held :
                Logout(tok) =>
                   /\ UNCHANGED <<merchants, otps, sessions, failedChecks, nextToken>>
                   /\ UNCHANGED rateVars
                   /\ resp'.status = 200 =>
                         (authenticate(tok) \in {"passed", "refreshed"})'
        /\ resp'.op = "authenticate" =>
             \A tok \in held :
                Authenticate(tok) /\ now < tok.exp /\ tok.isActive => resp'.status = 200
      ]_vars

\* a logout was answered 200 while a one-time code and an MFA session are
\* stored, and a held token is accepted
C39_Witness ==
    /\ resp.op = "logout" /\ resp.status = 200
    /\ otps # <<>>
    /\ sessions # <<>>
    /\ \E tok \in held : authenticate(tok) \in {"passed", "refreshed"}

====
